---- MODULE Spec2Model ----
(***************************************************************************)
(* A model of Libby Wrapped's data layer (src/data.py): the loader with    *)
(* its manual finish-time corrections, title canonicalization, the         *)
(* percentile lookup, the fastest-read join and the yearly metrics.        *)
(*                                                                         *)
(* Representation.  A Python str is a sequence of one-character strings    *)
(* (<<"M","a","t","e">>); the em and en dash are the atoms "emdash" and    *)
(* "endash".  A timestamp is a whole number of minutes since               *)
(* 2025-01-01 00:00 (negative before it).                                  *)
(* Money is held in cents.  Durations that the code holds in hours are     *)
(* held in minutes, and hours rounded to 2 decimals in hundredths.         *)
(***************************************************************************)
EXTENDS Integers, Sequences, FiniteSets, TLC

VARIABLES
    cols,       \* column names of the reads export (after _normalize_cols)
    reads,      \* rows of the reads export file
    loansFile,  \* "present" | "missing" | "unreadable": the timeline file
    loans,      \* rows of the timeline file
    df,         \* the frame load_data returned, or NoFrame
    res,        \* what compute_metrics did: NoResult, ok with Metrics, or raised
    speeds,     \* what compute_read_speeds returned when called directly
    pc,         \* position of the caller
    arg,        \* argument of a directly called pure function
    ret,        \* results of the calls made on arg, in order
    wrote,      \* whether load_data wrote the corrected table back to the export
    cache       \* st.cache_data of load_metrics: <<>> or the one cached return value

vars == <<cols, reads, loansFile, loans, df, res, speeds, pc, arg, ret, wrote, cache>>

\* A nullable number or timestamp is a sequence of at most one element: <<>> is
\* NaT / NaN, <<v>> the value v.  A missing string cell is NaN, which is no str.
NaT == <<>>
NaN == <<"NaN">>
Some(v) == <<v>>
IsNull(x) == x = <<>>
Val(x) == x[1]

NoFrame == [loaded |-> FALSE]
NoResult == [status |-> "none"]

\* ---------------------------------------------------------------- characters

\* A str is the sequence of its characters and a character is a string: itself
\* when it is printable ASCII, its escape for \t \n \f \r \" \\, and for every
\* other character a token: U+ and its code point in four hexadecimal digits, or
\* one of the short names vtab (U+000B), x1c..x1f (U+001C..U+001F), backtick
\* (U+0060), x85 (U+0085), nbsp (U+00A0), endash (U+2013), emdash (U+2014).
\*
\* The alphabet of the model is U+0000..U+00FF, the seventeen whitespace
\* characters above U+00FF, the two dashes, the Arabic-Indic digits
\* U+0660..U+0669 and the characters the case mappings of these lead to (U+0178,
\* U+039C, U+03BC); the definitions below say of each what Python's Unicode
\* database says.  A character outside the alphabet is not a value of the model.

\* c.lower() of the characters it changes
LowerOf ==
    "A" :> "a" @@ "B" :> "b" @@ "C" :> "c" @@ "D" :> "d" @@ "E" :> "e" @@ "F" :> "f" @@ "G" :> "g" @@
    "H" :> "h" @@ "I" :> "i" @@ "J" :> "j" @@ "K" :> "k" @@ "L" :> "l" @@ "M" :> "m" @@ "N" :> "n" @@
    "O" :> "o" @@ "P" :> "p" @@ "Q" :> "q" @@ "R" :> "r" @@ "S" :> "s" @@ "T" :> "t" @@ "U" :> "u" @@
    "V" :> "v" @@ "W" :> "w" @@ "X" :> "x" @@ "Y" :> "y" @@ "Z" :> "z" @@ "U+00C0" :> "U+00E0" @@
    "U+00C1" :> "U+00E1" @@ "U+00C2" :> "U+00E2" @@ "U+00C3" :> "U+00E3" @@ "U+00C4" :> "U+00E4" @@
    "U+00C5" :> "U+00E5" @@ "U+00C6" :> "U+00E6" @@ "U+00C7" :> "U+00E7" @@ "U+00C8" :> "U+00E8" @@
    "U+00C9" :> "U+00E9" @@ "U+00CA" :> "U+00EA" @@ "U+00CB" :> "U+00EB" @@ "U+00CC" :> "U+00EC" @@
    "U+00CD" :> "U+00ED" @@ "U+00CE" :> "U+00EE" @@ "U+00CF" :> "U+00EF" @@ "U+00D0" :> "U+00F0" @@
    "U+00D1" :> "U+00F1" @@ "U+00D2" :> "U+00F2" @@ "U+00D3" :> "U+00F3" @@ "U+00D4" :> "U+00F4" @@
    "U+00D5" :> "U+00F5" @@ "U+00D6" :> "U+00F6" @@ "U+00D8" :> "U+00F8" @@ "U+00D9" :> "U+00F9" @@
    "U+00DA" :> "U+00FA" @@ "U+00DB" :> "U+00FB" @@ "U+00DC" :> "U+00FC" @@ "U+00DD" :> "U+00FD" @@
    "U+00DE" :> "U+00FE" @@ "U+0178" :> "U+00FF" @@ "U+039C" :> "U+03BC"

\* the characters the regex class \s matches and str.strip() removes
SpaceChars ==
    {"\t", "\n", "vtab", "\f", "\r", "x1c", "x1d", "x1e", "x1f", " ", "x85", "nbsp", "U+1680",
     "U+2000", "U+2001", "U+2002", "U+2003", "U+2004", "U+2005", "U+2006", "U+2007", "U+2008",
     "U+2009", "U+200A", "U+2028", "U+2029", "U+202F", "U+205F", "U+3000"}

\* the characters the regex class \w matches: the letters, the decimal digits,
\* the superscript digits and the fractions, and the underscore
WordChars ==
    {"0", "1", "2", "3", "4", "5", "6", "7", "8", "9", "A", "B", "C", "D", "E", "F", "G", "H", "I",
     "J", "K", "L", "M", "N", "O", "P", "Q", "R", "S", "T", "U", "V", "W", "X", "Y", "Z", "_", "a",
     "b", "c", "d", "e", "f", "g", "h", "i", "j", "k", "l", "m", "n", "o", "p", "q", "r", "s", "t",
     "u", "v", "w", "x", "y", "z", "U+00AA", "U+00B2", "U+00B3", "U+00B5", "U+00B9", "U+00BA",
     "U+00BC", "U+00BD", "U+00BE", "U+00C0", "U+00C1", "U+00C2", "U+00C3", "U+00C4", "U+00C5",
     "U+00C6", "U+00C7", "U+00C8", "U+00C9", "U+00CA", "U+00CB", "U+00CC", "U+00CD", "U+00CE",
     "U+00CF", "U+00D0", "U+00D1", "U+00D2", "U+00D3", "U+00D4", "U+00D5", "U+00D6", "U+00D8",
     "U+00D9", "U+00DA", "U+00DB", "U+00DC", "U+00DD", "U+00DE", "U+00DF", "U+00E0", "U+00E1",
     "U+00E2", "U+00E3", "U+00E4", "U+00E5", "U+00E6", "U+00E7", "U+00E8", "U+00E9", "U+00EA",
     "U+00EB", "U+00EC", "U+00ED", "U+00EE", "U+00EF", "U+00F0", "U+00F1", "U+00F2", "U+00F3",
     "U+00F4", "U+00F5", "U+00F6", "U+00F8", "U+00F9", "U+00FA", "U+00FB", "U+00FC", "U+00FD",
     "U+00FE", "U+00FF", "U+0178", "U+039C", "U+03BC", "U+0660", "U+0661", "U+0662", "U+0663",
     "U+0664", "U+0665", "U+0666", "U+0667", "U+0668", "U+0669"}

\* the digits pd.to_numeric reads
Digits == <<"0", "1", "2", "3", "4", "5", "6", "7", "8", "9">>

\* U+0000..U+00FF in code point order
Latin1 ==
    <<"U+0000", "U+0001", "U+0002", "U+0003", "U+0004", "U+0005", "U+0006", "U+0007", "U+0008", "\t",
      "\n", "vtab", "\f", "\r", "U+000E", "U+000F", "U+0010", "U+0011", "U+0012", "U+0013", "U+0014",
      "U+0015", "U+0016", "U+0017", "U+0018", "U+0019", "U+001A", "U+001B", "x1c", "x1d", "x1e",
      "x1f", " ", "!", "\"", "#", "$", "%", "&", "'", "(", ")", "*", "+", ",", "-", ".", "/", "0",
      "1", "2", "3", "4", "5", "6", "7", "8", "9", ":", ";", "<", "=", ">", "?", "@", "A", "B", "C",
      "D", "E", "F", "G", "H", "I", "J", "K", "L", "M", "N", "O", "P", "Q", "R", "S", "T", "U", "V",
      "W", "X", "Y", "Z", "[", "\\", "]", "^", "_", "backtick", "a", "b", "c", "d", "e", "f", "g",
      "h", "i", "j", "k", "l", "m", "n", "o", "p", "q", "r", "s", "t", "u", "v", "w", "x", "y", "z",
      "{", "|", "}", "~", "U+007F", "U+0080", "U+0081", "U+0082", "U+0083", "U+0084", "x85",
      "U+0086", "U+0087", "U+0088", "U+0089", "U+008A", "U+008B", "U+008C", "U+008D", "U+008E",
      "U+008F", "U+0090", "U+0091", "U+0092", "U+0093", "U+0094", "U+0095", "U+0096", "U+0097",
      "U+0098", "U+0099", "U+009A", "U+009B", "U+009C", "U+009D", "U+009E", "U+009F", "nbsp",
      "U+00A1", "U+00A2", "U+00A3", "U+00A4", "U+00A5", "U+00A6", "U+00A7", "U+00A8", "U+00A9",
      "U+00AA", "U+00AB", "U+00AC", "U+00AD", "U+00AE", "U+00AF", "U+00B0", "U+00B1", "U+00B2",
      "U+00B3", "U+00B4", "U+00B5", "U+00B6", "U+00B7", "U+00B8", "U+00B9", "U+00BA", "U+00BB",
      "U+00BC", "U+00BD", "U+00BE", "U+00BF", "U+00C0", "U+00C1", "U+00C2", "U+00C3", "U+00C4",
      "U+00C5", "U+00C6", "U+00C7", "U+00C8", "U+00C9", "U+00CA", "U+00CB", "U+00CC", "U+00CD",
      "U+00CE", "U+00CF", "U+00D0", "U+00D1", "U+00D2", "U+00D3", "U+00D4", "U+00D5", "U+00D6",
      "U+00D7", "U+00D8", "U+00D9", "U+00DA", "U+00DB", "U+00DC", "U+00DD", "U+00DE", "U+00DF",
      "U+00E0", "U+00E1", "U+00E2", "U+00E3", "U+00E4", "U+00E5", "U+00E6", "U+00E7", "U+00E8",
      "U+00E9", "U+00EA", "U+00EB", "U+00EC", "U+00ED", "U+00EE", "U+00EF", "U+00F0", "U+00F1",
      "U+00F2", "U+00F3", "U+00F4", "U+00F5", "U+00F6", "U+00F7", "U+00F8", "U+00F9", "U+00FA",
      "U+00FB", "U+00FC", "U+00FD", "U+00FE", "U+00FF">>

Range(s) == {s[i] : i \in DOMAIN s}

\* the sequence s held as the list of its elements
List(s) == SubSeq(s, 1, Len(s))

IsSpaceChar(c) == c \in SpaceChars
IsWordChar(c) == c \in WordChars

\* the regex class \d: the decimal digits, the Arabic-Indic ones among them
IsDigit(c) == c \in Range(Digits) \cup {"U+0660", "U+0661", "U+0662", "U+0663", "U+0664", "U+0665",
                                    "U+0666", "U+0667", "U+0668", "U+0669"}

\* str.lower() on one character
LowerChar(c) == IF c \in DOMAIN LowerOf THEN LowerOf[c] ELSE c

\* what str.title() asks of the character before: is it cased.  U+00AA, U+00B5,
\* U+00BA and U+00DF are, and c.lower() leaves them as they are.
IsCased(c) ==
    \/ c \in DOMAIN LowerOf
    \/ \E u \in DOMAIN LowerOf : LowerOf[u] = c
    \/ c \in {"U+00AA", "U+00B5", "U+00BA", "U+00DF"}

\* str.title() on one character, which gives one character or two: the title
\* form of U+00DF is Ss, that of the micro sign U+00B5 is U+039C
TitleChar(c) ==
    LET from == {u \in DOMAIN LowerOf : LowerOf[u] = c}
    IN  IF c = "U+00DF" THEN <<"S", "s">>
        ELSE IF c = "U+00B5" THEN <<"U+039C">>
        ELSE IF from = {} THEN <<c>> ELSE <<CHOOSE u \in from : TRUE>>

\* ------------------------------------------------------------------ strings

Lower(s) == List([i \in DOMAIN s |-> LowerChar(s[i])])

\* str.lstrip() and str.rstrip(): the leading and the trailing whitespace go
RECURSIVE LStrip(_)
LStrip(s) == IF s # <<>> /\ IsSpaceChar(Head(s)) THEN LStrip(Tail(s)) ELSE s

RECURSIVE RStrip(_)
RStrip(s) ==
    IF s # <<>> /\ IsSpaceChar(s[Len(s)]) THEN RStrip(SubSeq(s, 1, Len(s) - 1)) ELSE s

\* str.strip()
Strip(s) == RStrip(LStrip(s))

\* whether needle occurs in s at position i
MatchAt(s, i, needle) ==
    /\ i >= 1
    /\ i + Len(needle) - 1 <= Len(s)
    /\ \A k \in DOMAIN needle : s[i + k - 1] = needle[k]

\* str.contains(needle) for a literal needle
Contains(s, needle) == \E i \in 1..(Len(s) + 1) : MatchAt(s, i, needle)

\* str.replace(old, new) for literal old and new
RECURSIVE ReplaceFrom(_, _, _, _)
ReplaceFrom(s, i, old, new) ==
    IF i > Len(s) THEN <<>>
    ELSE IF MatchAt(s, i, old) THEN new \o ReplaceFrom(s, i + Len(old), old, new)
    ELSE <<s[i]>> \o ReplaceFrom(s, i + 1, old, new)

ReplaceAll(s, old, new) == ReplaceFrom(s, 1, old, new)

\* the characters of s that satisfy keep, in order
RECURSIVE DropChars(_, _)
DropChars(s, drop) ==
    IF s = <<>> THEN <<>>
    ELSE (IF Head(s) \in drop THEN <<>> ELSE <<Head(s)>>) \o DropChars(Tail(s), drop)

\* re.sub(r"\s+", " ", s)
RECURSIVE CollapseFrom(_, _)
CollapseFrom(s, i) ==
    IF i > Len(s) THEN <<>>
    ELSE IF IsSpaceChar(s[i])
         THEN (IF i > 1 /\ IsSpaceChar(s[i - 1]) THEN <<>> ELSE <<" ">>) \o CollapseFrom(s, i + 1)
         ELSE <<s[i]>> \o CollapseFrom(s, i + 1)

CollapseSpaces(s) == CollapseFrom(s, 1)

\* ------------------------------------------------- _canon_title (data.py 96-113)

\* the end of the match of \[.*?\] or \(.*?\) that starts at i, or 0: "." does not
\* match a newline, and the lazy quantifier stops at the first closer
BracketEnd(s, i) ==
    LET closer == IF s[i] = "[" THEN "]" ELSE ")"
        ends == {j \in (i + 1)..Len(s) :
                    /\ s[j] = closer
                    /\ \A k \in (i + 1)..(j - 1) : s[k] # closer /\ s[k] # "\n"}
    IN  IF s[i] \in {"[", "("} /\ ends # {} THEN CHOOSE j \in ends : TRUE ELSE 0

\* _brackets.sub("", s)
RECURSIVE RemoveBracketsFrom(_, _)
RemoveBracketsFrom(s, i) ==
    IF i > Len(s) THEN <<>>
    ELSE IF BracketEnd(s, i) # 0 THEN RemoveBracketsFrom(s, BracketEnd(s, i) + 1)
    ELSE <<s[i]>> \o RemoveBracketsFrom(s, i + 1)

RemoveBrackets(s) == RemoveBracketsFrom(s, 1)

\* s.replace("—", "-").replace("–", "-")
NormalizeDashes(s) ==
    List([i \in DOMAIN s |-> IF s[i] \in {"emdash", "endash"} THEN "-" ELSE s[i]])

\* whether \breread\b.*$ matches starting at i: word boundaries on both sides of
\* the word, then ".*" runs to the end of the string without crossing a newline;
\* "$" matches at the end or just before a newline that ends the string
RereadMatchesAt(s, i) ==
    /\ MatchAt(s, i, <<"r", "e", "r", "e", "a", "d">>)
    /\ (i = 1 \/ ~IsWordChar(s[i - 1]))
    /\ (i + 6 > Len(s) \/ ~IsWordChar(s[i + 6]))
    /\ \A k \in (i + 6)..(Len(s) - 1) : s[k] # "\n"

\* re.sub(r"\breread\b.*$", "", s)
RemoveReread(s) ==
    LET starts == {i \in DOMAIN s : RereadMatchesAt(s, i)}
    IN  IF starts = {} THEN s
        ELSE LET i == CHOOSE x \in starts : \A y \in starts : x <= y
             IN  SubSeq(s, 1, i - 1)
                 \o (IF s[Len(s)] = "\n" /\ Len(s) >= i + 6 THEN <<"\n">> ELSE <<>>)

\* _punct.sub(" ", s) with _punct = [^\w\s]
PunctToSpace(s) ==
    List([i \in DOMAIN s |-> IF IsWordChar(s[i]) \/ IsSpaceChar(s[i]) THEN s[i] ELSE " "])

_canon_title(s) ==
    IF s = NaN THEN <<>>
    ELSE Strip(CollapseSpaces(PunctToSpace(RemoveReread(NormalizeDashes(
             RemoveBrackets(Strip(Lower(s))))))))

\* -------------------------------------------- _display_title (data.py 116-123)

\* the end of the match of \s*<open>.*?<close> that starts at i, or 0
DisplayCutEnd(s, i, open, close) ==
    LET starts == {o \in i..Len(s) : s[o] = open /\ \A k \in i..(o - 1) : IsSpaceChar(s[k])}
    IN  IF starts = {} THEN 0
        ELSE LET o == CHOOSE x \in starts : TRUE
                 ends == {j \in (o + 1)..Len(s) :
                             /\ s[j] = close
                             /\ \A k \in (o + 1)..(j - 1) : s[k] # close /\ s[k] # "\n"}
             IN  IF ends = {} THEN 0 ELSE CHOOSE j \in ends : TRUE

\* re.sub(r"\s*\(.*?\)", "", s) and its square-bracket twin
RECURSIVE DisplayCutFrom(_, _, _, _)
DisplayCutFrom(s, i, open, close) ==
    IF i > Len(s) THEN <<>>
    ELSE IF DisplayCutEnd(s, i, open, close) # 0
         THEN DisplayCutFrom(s, DisplayCutEnd(s, i, open, close) + 1, open, close)
    ELSE <<s[i]>> \o DisplayCutFrom(s, i + 1, open, close)

\* re.sub(r"\s{2,}", " ", s): a run of two or more whitespace becomes one space
RECURSIVE CollapseRunsFrom(_, _)
CollapseRunsFrom(s, i) ==
    IF i > Len(s) THEN <<>>
    ELSE IF IsSpaceChar(s[i]) /\ i < Len(s) /\ IsSpaceChar(s[i + 1])
              /\ (i = 1 \/ ~IsSpaceChar(s[i - 1]))
         THEN <<" ">> \o CollapseRunsFrom(s, i + 1)
    ELSE IF IsSpaceChar(s[i]) /\ i > 1 /\ IsSpaceChar(s[i - 1])
         THEN CollapseRunsFrom(s, i + 1)
    ELSE <<s[i]>> \o CollapseRunsFrom(s, i + 1)

_display_title(s) ==
    IF s = NaN THEN <<>>
    ELSE Strip(CollapseRunsFrom(DisplayCutFrom(DisplayCutFrom(s, 1, "(", ")"), 1, "[", "]"), 1))

\* ---------------------------------------- estimate_percentile (data.py 298-333)

\* Python's round(): to the nearest integer, a tie to the even one; num >= 0, den > 0
RoundHalfEven(num, den) ==
    LET q == num \div den
        r == num % den
    IN  IF 2 * r < den THEN q
        ELSE IF 2 * r > den THEN q + 1
        ELSE IF q % 2 = 0 THEN q ELSE q + 1

\* the table with the percentiles of 9 books mistyped (87 for 78)
percentile_table_typo ==
    << <<0, 0>>, <<1, 46>>, <<2, 51>>, <<3, 56>>, <<4, 62>>, <<5, 67>>, <<6, 72>>,
       <<7, 76>>, <<8, 77>>, <<9, 87>>, <<10, 79>>, <<15, 85>>, <<20, 88>>,
       <<30, 92>>, <<40, 94>>, <<50, 99>> >>

percentile_table ==
    << <<0, 0>>, <<1, 46>>, <<2, 51>>, <<3, 56>>, <<4, 62>>, <<5, 67>>, <<6, 72>>,
       <<7, 76>>, <<8, 77>>, <<9, 78>>, <<10, 79>>, <<15, 85>>, <<20, 88>>,
       <<30, 92>>, <<40, 94>>, <<50, 99>> >>

estimate_percentile(total_books) ==
    IF total_books <= 0 THEN 0
    ELSE IF total_books >= 50 THEN 99
    ELSE LET hits == {i \in 2..Len(percentile_table) : total_books <= percentile_table[i][1]}
         IN  IF hits = {} THEN 99
             ELSE LET i == CHOOSE x \in hits : \A y \in hits : x <= y
                      lo_books == percentile_table[i - 1][1]
                      lo_pct == percentile_table[i - 1][2]
                      hi_books == percentile_table[i][1]
                      hi_pct == percentile_table[i][2]
                      span == IF hi_books - lo_books >= 1 THEN hi_books - lo_books ELSE 1
                  IN  \* round(lo_pct + frac * (hi_pct - lo_pct)), frac = (n - lo) / span
                      RoundHalfEven(lo_pct * span + (total_books - lo_books) * (hi_pct - lo_pct),
                                    span)

\* ----------------------------------------------------------------- timestamps

TargetYear == 2025

IsLeap(y) == (y % 4 = 0 /\ y % 100 # 0) \/ y % 400 = 0
DaysInYear(y) == IF IsLeap(y) THEN 366 ELSE 365

\* days from 2025-01-01 to <y>-01-01 (negative for earlier years)
RECURSIVE DaysBeforeYear(_)
DaysBeforeYear(y) ==
    IF y = 2025 THEN 0
    ELSE IF y > 2025 THEN DaysBeforeYear(y - 1) + DaysInYear(y - 1)
    ELSE DaysBeforeYear(y + 1) - DaysInYear(y)

MonthDays(y) == <<31, IF IsLeap(y) THEN 29 ELSE 28, 31, 30, 31, 30, 31, 31, 30, 31, 30, 31>>

RECURSIVE DaysBeforeMonth(_, _)
DaysBeforeMonth(y, mo) ==
    IF mo = 1 THEN 0 ELSE DaysBeforeMonth(y, mo - 1) + MonthDays(y)[mo - 1]

\* the timestamp y-mo-d h:mi
DT(y, mo, d, h, mi) ==
    ((DaysBeforeYear(y) + DaysBeforeMonth(y, mo) + (d - 1)) * 24 + h) * 60 + mi

Years == 2023..2027

\* Timestamp.year
YearOf(t) ==
    CHOOSE y \in Years : DaysBeforeYear(y) * 1440 <= t /\ t < DaysBeforeYear(y + 1) * 1440

\* Series.dt.year == year on a nullable timestamp: NaT compares unequal
YearIs(x, year) == ~IsNull(x) /\ YearOf(Val(x)) = year

\* Timestamp.month
MonthOf(t) ==
    LET y == YearOf(t)
        day == (t \div 1440) - DaysBeforeYear(y)
    IN  CHOOSE mo \in 1..12 :
            DaysBeforeMonth(y, mo) <= day /\ day < DaysBeforeMonth(y, mo) + MonthDays(y)[mo]

\* 0 = Sunday; 2025-01-01 was a Wednesday
DayOfWeek(y, mo, d) == (3 + DaysBeforeYear(y) + DaysBeforeMonth(y, mo) + (d - 1)) % 7

\* the day of month of the n-th Sunday of month mo
NthSunday(y, mo, n) ==
    (CHOOSE d \in 1..7 : DayOfWeek(y, mo, d) = 0) + 7 * (n - 1)

\* LOCAL_TZ = "America/Indiana/Indianapolis": US Eastern time.  Daylight time runs
\* from 02:00 EST (07:00 UTC) on the second Sunday of March to 02:00 EDT
\* (06:00 UTC) on the first Sunday of November.
UtcOffset(utc) ==
    LET y == YearOf(utc)
    IN  IF DT(y, 3, NthSunday(y, 3, 2), 7, 0) <= utc /\ utc < DT(y, 11, NthSunday(y, 11, 1), 6, 0)
        THEN 0 - 240 ELSE 0 - 300

\* ts.dt.tz_convert(LOCAL_TZ).dt.tz_localize(None) on a nullable UTC timestamp
ToLocal(x) == IF IsNull(x) THEN NaT ELSE Some(Val(x) + UtcOffset(Val(x)))

\* ------------------------------------------------------------------- sorting

\* a stable sort of s by a strict weak order given as lt[i, j]: "s[i] sorts before
\* s[j]"; elements that compare equal keep their order
StableSort(s, lt) ==
    LET n == Len(s)
        rank(i) == Cardinality({j \in 1..n :
                       lt[j, i] \/ (~lt[i, j] /\ ~lt[j, i] /\ j < i)})
    IN  List([p \in 1..n |-> s[CHOOSE i \in 1..n : rank(i) = p - 1]])

\* the code point of a character: str < str compares code points
CharRank(c) ==
    LET others == << <<"U+0178", 376>>, <<"U+039C", 924>>, <<"U+03BC", 956>>, <<"U+0660", 1632>>,
                     <<"U+0661", 1633>>, <<"U+0662", 1634>>, <<"U+0663", 1635>>, <<"U+0664", 1636>>,
                     <<"U+0665", 1637>>, <<"U+0666", 1638>>, <<"U+0667", 1639>>, <<"U+0668", 1640>>,
                     <<"U+0669", 1641>>, <<"U+1680", 5760>>, <<"U+2000", 8192>>, <<"U+2001", 8193>>,
                     <<"U+2002", 8194>>, <<"U+2003", 8195>>, <<"U+2004", 8196>>, <<"U+2005", 8197>>,
                     <<"U+2006", 8198>>, <<"U+2007", 8199>>, <<"U+2008", 8200>>, <<"U+2009", 8201>>,
                     <<"U+200A", 8202>>, <<"endash", 8211>>, <<"emdash", 8212>>, <<"U+2028", 8232>>,
                     <<"U+2029", 8233>>, <<"U+202F", 8239>>, <<"U+205F", 8287>>, <<"U+3000", 12288>> >>
        k == {i \in DOMAIN Latin1 : Latin1[i] = c}
    IN  IF k # {} THEN (CHOOSE i \in k : TRUE) - 1
        ELSE others[CHOOSE j \in DOMAIN others : others[j][1] = c][2]

\* str < str
RECURSIVE StrLess(_, _)
StrLess(a, b) ==
    IF b = <<>> THEN FALSE
    ELSE IF a = <<>> THEN TRUE
    ELSE IF Head(a) # Head(b) THEN CharRank(Head(a)) < CharRank(Head(b))
    ELSE StrLess(Tail(a), Tail(b))

\* the subsequence of s at the indices in keep, in order
RECURSIVE PickFrom(_, _, _)
PickFrom(s, keep, i) ==
    IF i > Len(s) THEN <<>>
    ELSE (IF i \in keep THEN <<s[i]>> ELSE <<>>) \o PickFrom(s, keep, i + 1)

Pick(s, keep) == PickFrom(s, keep, 1)

RECURSIVE Sum(_)
Sum(s) == IF s = <<>> THEN 0 ELSE Head(s) + Sum(Tail(s))

\* --------------------------------------------------- binary64 (Python float)
\* A natural number is the sequence of its digits in base 2^18, the most
\* significant first, 0 being <<>>.  A float is [m |-> digits, e |-> exponent],
\* the value m * Base^e with the last digit of m not 0, and 0.0 is
\* [m |-> <<>>, e |-> 0].  All the amounts and the durations of the program are
\* non-negative and far from overflow, and the ints they are multiplied and
\* divided by are below 2^13.

Base == 262144

\* the digits of an int below 2^31, a leading 0 included
Limbs(n) == <<n \div Base, n % Base>>

RECURSIVE ToInt(_)
ToInt(b) == IF b = <<>> THEN 0 ELSE Base * ToInt(SubSeq(b, 1, Len(b) - 1)) + b[Len(b)]

Zeros(k) == [i \in 1..k |-> 0]

\* the digits without leading zeros
Trim(b) ==
    LET used == {i \in DOMAIN b : b[i] # 0}
    IN  IF used = {} THEN <<>>
        ELSE SubSeq(b, CHOOSE i \in used : \A j \in 1..(i - 1) : b[j] = 0, Len(b))

\* b * k + carry for an int k >= 0
RECURSIVE MulCarry(_, _, _)
MulCarry(b, k, carry) ==
    IF b = <<>> THEN Limbs(carry)
    ELSE LET t == b[Len(b)] * k + carry
         IN  Append(MulCarry(SubSeq(b, 1, Len(b) - 1), k, t \div Base), t % Base)

Mul(b, k) == Trim(MulCarry(b, k, 0))

\* the quotient digits q and the remainder r of b by d
RECURSIVE DivMod(_, _)
DivMod(b, d) ==
    IF b = <<>> THEN [q |-> <<>>, r |-> 0]
    ELSE LET high == DivMod(SubSeq(b, 1, Len(b) - 1), d)
             t == high.r * Base + b[Len(b)]
         IN  [q |-> Append(high.q, t \div d), r |-> t % d]

\* a + b + carry, on as many digits as the longer of them and one more when the
\* carry runs out of them
RECURSIVE AddCarry(_, _, _)
AddCarry(a, b, carry) ==
    IF a = <<>> /\ b = <<>> THEN IF carry = 0 THEN <<>> ELSE <<carry>>
    ELSE LET t == (IF a = <<>> THEN 0 ELSE a[Len(a)]) + (IF b = <<>> THEN 0 ELSE b[Len(b)])
                      + carry
         IN  Append(AddCarry(SubSeq(a, 1, Len(a) - 1), SubSeq(b, 1, Len(b) - 1), t \div Base),
                    t % Base)

\* the multiple of 2^s nearest to b + f, a tie going to the even multiple, on
\* more than s \div 18 digits; 0 <= f < 1, f > 0 iff sticky, and s >= 1 when
\* sticky
Nearest(b, s, sticky) ==
    LET q == s \div 18
        r == s % 18
        digit(i) == IF i < Len(b) THEN b[Len(b) - i] ELSE 0
        v == digit(q)
        half == IF r >= 1 THEN (v \div 2 ^ (r - 1)) % 2 = 1
                ELSE q >= 1 /\ digit(q - 1) \div 2 ^ 17 = 1
        rest == \/ sticky
                \/ r >= 1 /\ v % 2 ^ (r - 1) # 0
                \/ r = 0 /\ q >= 1 /\ digit(q - 1) % 2 ^ 17 # 0
                \/ \E i \in 0..(IF r >= 1 THEN q - 1 ELSE q - 2) : digit(i) # 0
        odd == (v \div 2 ^ r) % 2 = 1
        keep == SubSeq(b, 1, Len(b) - q - 1) \o <<(v \div 2 ^ r) * 2 ^ r>> \o Zeros(q)
    IN  IF half /\ (rest \/ odd) THEN AddCarry(keep, <<2 ^ r>> \o Zeros(q), 0) ELSE keep

\* the float b * Base^e, b of at most 53 binary digits after its trailing zeros
Float(b, e) ==
    LET used == {i \in DOMAIN b : b[i] # 0}
        last == CHOOSE i \in used : \A j \in (i + 1)..Len(b) : b[j] = 0
    IN  IF used = {} THEN [m |-> <<>>, e |-> 0]
        ELSE [m |-> Trim(SubSeq(b, 1, last)), e |-> e + Len(b) - last]

\* the float nearest to (b + f) * Base^e, a tie going to the even mantissa; b has
\* no leading zeros, and more than 53 binary digits when sticky
Round53(b, e, sticky) ==
    LET width == CHOOSE k \in 1..18 : 2 ^ (k - 1) <= b[1] /\ b[1] < 2 ^ k
        len == 18 * (Len(b) - 1) + width
    IN  IF b = <<>> \/ len <= 53 THEN Float(b, e) ELSE Float(Nearest(b, len - 53, sticky), e)

\* float(n) of an int below 2^31
FromInt(n) == Float(Limbs(n), 0)

\* x / d for a positive int d: the quotient is taken to 54 binary digits or
\* more, the remainder says whether it is exact
FDiv(x, d) ==
    LET p == DivMod(x.m \o Zeros(4), d)
    IN  Round53(Trim(p.q), x.e - 4, p.r # 0)

\* x * k for an int k >= 0
FMul(x, k) == Round53(Mul(x.m, k), x.e, FALSE)

\* the mantissa of x on the exponent e <= x.e
Align(x, e) == x.m \o Zeros(IF x.m = <<>> THEN 0 ELSE x.e - e)

\* x + y
FAdd(x, y) ==
    LET e == IF x.m = <<>> THEN y.e ELSE IF y.m = <<>> \/ x.e < y.e THEN x.e ELSE y.e
    IN  Round53(Trim(AddCarry(Align(x, e), Align(y, e), 0)), e, FALSE)

\* x < y
FLess(x, y) ==
    LET e == IF x.m = <<>> THEN y.e ELSE IF y.m = <<>> \/ x.e < y.e THEN x.e ELSE y.e
        a == Align(x, e)
        b == Align(y, e)
    IN  \/ Len(a) < Len(b)
        \/ /\ Len(a) = Len(b)
           /\ \E i \in DOMAIN a : a[i] < b[i] /\ SubSeq(a, 1, i - 1) = SubSeq(b, 1, i - 1)

\* the float nearest to num / den: a decimal numeral read by pd.to_numeric, an int
\* divided by a float
FromRatio(num, den) == FDiv(FromInt(num), den)

\* round(x, n) of a Python float, p = 10^n: the exact value of x is rounded to n
\* decimals, a tie going to the even one.  The result is the float nearest to
\* PyRound(x, p) / p.
PyRound(x, p) ==
    LET b == Mul(x.m, p)
        n == Nearest(b, 18 * (0 - x.e), FALSE)
    IN  IF x.e >= 0 THEN ToInt(b \o Zeros(x.e)) ELSE ToInt(SubSeq(n, 1, Len(n) + x.e))

\* round(x, n) of a numpy float64, p = 10^n: np.rint(x * p) / p, the product
\* rounded to a float before rint.  The result is the float nearest to
\* NpRound(x, p) / p.
NpRound(x, p) == PyRound(FMul(x, p), 1)

\* acc + s[1] + s[2] + ..., added in this order
RECURSIVE SumInOrder(_, _)
SumInOrder(acc, s) ==
    IF s = <<>> THEN acc ELSE SumInOrder(FAdd(acc, s[1]), SubSeq(s, 2, Len(s)))

\* the sum of a float Series: numpy's add.reduce of the array, a pairwise sum.
\* Fewer than 8 values are added in order from 0.0.  Up to 128 values are added
\* on 8 accumulators, value i going to accumulator i mod 8, the accumulators are
\* added as ((r0 + r1) + (r2 + r3)) + ((r4 + r5) + (r6 + r7)) and the values
\* after the last whole block of 8 are added to that in order.  More than 128
\* values are split at a multiple of 8 near the middle and the sums of the two
\* parts are added.
RECURSIVE FSum(_)
FSum(s) ==
    LET n == Len(s)
        blocks == n \div 8
        r(j) == SumInOrder(s[j], [k \in 1..(blocks - 1) |-> s[8 * k + j]])
        sum8 == FAdd(FAdd(FAdd(r(1), r(2)), FAdd(r(3), r(4))),
                     FAdd(FAdd(r(5), r(6)), FAdd(r(7), r(8))))
        n2 == (n \div 2) - ((n \div 2) % 8)
    IN  IF n < 8 THEN SumInOrder(FromInt(0), s)
        ELSE IF n <= 128 THEN SumInOrder(sum8, SubSeq(s, 8 * blocks + 1, n))
        ELSE FAdd(FSum(SubSeq(s, 1, n2)), FSum(SubSeq(s, n2 + 1, n)))

\* --------------------------------------------------- load_data (data.py 158-210)

\* a correction table with no entry
no_fixes == <<>>

\* raw_fixes: title -> corrected created_time, in the dict's order
raw_fixes ==
    << [title |-> <<"M", "a", "t", "e", " ", "(", "#", "2", ")">>,
        ts |-> DT(2025, 10, 7, 23, 27)],
       [title |-> <<"O", "n", "y", "x", " ", "S", "t", "o", "r", "m", " ", "(", "#", "3", ")">>,
        ts |-> DT(2025, 1, 23, 10, 30)] >>

\* fixes: the corrections keyed by canonical title (data.py 196)
fixes ==
    List([k \in DOMAIN raw_fixes |->
             [title |-> _canon_title(raw_fixes[k].title), ts |-> raw_fixes[k].ts]])

\* a pass that overwrites every row of the title, whatever its year
ApplyFixAnyYear(rows, title_norm, fix) ==
    List([i \in DOMAIN rows |->
             IF title_norm[i] = fix.title
             THEN [rows[i] EXCEPT !.created_time = Some(fix.ts)] ELSE rows[i]])

\* one pass of the loop of fix_finished_times: the rows of the title in the year
\* of the correction are overwritten, or every row of the title if there is none
ApplyFix(rows, title_norm, fix) ==
    LET inYear == {i \in DOMAIN rows :
                      title_norm[i] = fix.title
                      /\ YearIs(rows[i].created_time, YearOf(fix.ts))}
        mask == IF inYear # {} THEN inYear
                ELSE {i \in DOMAIN rows : title_norm[i] = fix.title}
    IN  List([i \in DOMAIN rows |->
                 IF i \in mask THEN [rows[i] EXCEPT !.created_time = Some(fix.ts)] ELSE rows[i]])

RECURSIVE ApplyFixes(_, _, _)
ApplyFixes(rows, title_norm, todo) ==
    IF todo = <<>> THEN rows
    ELSE ApplyFixes(ApplyFix(rows, title_norm, Head(todo)), title_norm, Tail(todo))

\* fix_finished_times(df): [raised, rows].  Without a created_time column the frame
\* is returned as it is; with one but no name column, out.get("name", "") is the
\* str "" and "".map raises AttributeError.
fix_finished_times(c, rows) ==
    IF "created_time" \notin c THEN [raised |-> FALSE, rows |-> rows]
    ELSE IF "name" \notin c THEN [raised |-> TRUE, rows |-> <<>>]
    ELSE [raised |-> FALSE,
          rows |-> ApplyFixes(rows, List([i \in DOMAIN rows |-> _canon_title(rows[i].name)]),
                              fixes)]

\* a cell of a column the frame does not have is never read: it is held as null
Blank == [name |-> NaN, author |-> NaN, status |-> NaN, finished |-> NaT,
          created_time |-> NaT, format |-> NaN, genre |-> NaN, cost |-> NaN,
          ab_hours |-> NaT, ab_minutes |-> NaT, page_count |-> NaT,
          audiobook_length_minutes |-> NaT]

Project(c, row) == [f \in DOMAIN row |-> IF f \in c THEN row[f] ELSE Blank[f]]

\* load_data(path): the frame read from the export, with the corrections applied
load_data(c, rows) ==
    LET fixed == fix_finished_times(c, List([i \in DOMAIN rows |-> Project(c, rows[i])]))
    IN  IF fixed.raised THEN [loaded |-> FALSE, raised |-> TRUE]
        ELSE [loaded |-> TRUE, cols |-> c, rows |-> fixed.rows]

\* what the file system does to the write-back (data.py 170-176): pd.read_csv or
\* to_csv raises, or both succeed
PersistOutcomes == {"ok", "reread_fails", "write_fails"}

\* a rewrite whatever the tables hold
AlwaysRewrite(c, rows) == TRUE

\* not _normalize_cols(orig).equals(df): the frame differs from the file as soon as
\* a correction assigned a cell, the Timestamp assigned being no str; without a
\* created_time column nothing is assigned
NeedsRewrite(c, rows) ==
    /\ {"created_time", "name"} \subseteq c
    /\ \E i \in DOMAIN rows, k \in DOMAIN fixes :
           _canon_title(Project(c, rows[i]).name) = fixes[k].title

\* whether df.to_csv(path) has run to its end
Rewrites(c, rows, frame, io) == frame.loaded /\ io = "ok" /\ NeedsRewrite(c, rows)

\* the rows of the file after df.to_csv(path, index=False)
Written(rows, frame) ==
    List([i \in DOMAIN rows |-> [rows[i] EXCEPT !.created_time = frame.rows[i].created_time]])

\* ----------------------------------------- compute_read_speeds (data.py 217-291)

\* Series.astype(str) on a string cell: a missing cell reads "nan"
AsStr(x) == IF x = NaN THEN <<"n", "a", "n">> ELSE x

Complete == <<"c", "o", "m", "p", "l", "e", "t", "e">>
\* astype(str).str.lower().str.strip() / .str.strip().str.lower() on status
NormStatus(x) == Strip(Lower(AsStr(x)))

\* act.str.contains("borrow|checkout") on the lowercased activity
IsBorrow(e) ==
    LET act == Lower(AsStr(e.activity))
    IN  \/ Contains(act, <<"b", "o", "r", "r", "o", "w">>)
        \/ Contains(act, <<"c", "h", "e", "c", "k", "o", "u", "t">>)

\* the borrow/checkout rows of the timeline with a parseable timestamp, the
\* timestamp converted from UTC to naive local time
Borrows(lrows) ==
    LET keep == {j \in DOMAIN lrows : IsBorrow(lrows[j]) /\ ~IsNull(lrows[j].timestamp)}
        picked == Pick(lrows, keep)
    IN  List([j \in DOMAIN picked |->
                 [title_norm |-> _canon_title(picked[j].title),
                  library |-> AsStr(picked[j].library),
                  borrowed |-> Val(ToLocal(picked[j].timestamp))]])

MinPages == 300

\* the completed reads of the year by created_time, with page_count >= 300 when
\* the frame has a page count; author_read is "" when the frame has no author
SpeedReads(frame, year) ==
    LET rows == frame.rows
        keep == {i \in DOMAIN rows :
                    /\ NormStatus(rows[i].status) = Complete
                    /\ YearIs(rows[i].created_time, year)
                    /\ ("page_count" \in frame.cols =>
                            ~IsNull(rows[i].page_count) /\ Val(rows[i].page_count) >= MinPages)}
        picked == Pick(rows, keep)
    IN  List([i \in DOMAIN picked |->
                 IF "author" \in frame.cols THEN picked[i]
                 ELSE [picked[i] EXCEPT !.author = <<>>]])

\* r.merge(borrows, on="title_norm", how="inner") and merged[borrowed <= created]:
\* pairs <<read, borrow>>; rn holds the canonical titles of the reads
JoinPairs(r, b, rn) ==
    {p \in (DOMAIN r) \X (DOMAIN b) :
        /\ rn[p[1]] = b[p[2]].title_norm
        /\ b[p[2]].borrowed <= Val(r[p[1]].created_time)}

\* the groupby key of a joined pair: (title_norm, created_time)
GroupKey(r, rn, p) == <<rn[p[1]], Val(r[p[1]].created_time)>>

\* the earliest borrow of a group instead of the latest
EarliestBorrow(g, b) ==
    LET low == {p \in g : \A q \in g : b[p[2]].borrowed <= b[q[2]].borrowed}
    IN  CHOOSE p \in low : \A q \in low : p[1] < q[1] \/ (p[1] = q[1] /\ p[2] <= q[2])

\* the borrow kept for a group of joined pairs: the latest; idxmax returns the
\* first of equal maxima in the sorted frame, which is the first in join order
LatestBorrow(g, b) ==
    LET top == {p \in g : \A q \in g : b[q[2]].borrowed <= b[p[2]].borrowed}
    IN  CHOOSE p \in top : \A q \in top : p[1] < q[1] \/ (p[1] = q[1] /\ p[2] <= q[2])

\* merged_sorted.loc[idx]: one pair for each group
BestPairs(r, b, rn, pairs) ==
    {p \in pairs :
        p = LatestBorrow({q \in pairs : GroupKey(r, rn, q) = GroupKey(r, rn, p)}, b)}

\* groupby returns the groups in key order
InKeyOrder(r, rn, best) ==
    List([n \in 1..Cardinality(best) |->
             CHOOSE p \in best :
                 Cardinality({q \in best :
                                 \/ StrLess(rn[q[1]], rn[p[1]])
                                 \/ /\ rn[q[1]] = rn[p[1]]
                                    /\ Val(r[q[1]].created_time) < Val(r[p[1]].created_time)}) = n - 1])

\* a row of the result; hours_to_finish = created_time - borrowed, in minutes
SpeedRow(r, b, p) ==
    [title |-> r[p[1]].name,
     author |-> r[p[1]].author,
     library |-> b[p[2]].library,
     borrowed |-> b[p[2]].borrowed,
     created_time |-> Val(r[p[1]].created_time),
     hours_to_finish |-> Val(r[p[1]].created_time) - b[p[2]].borrowed]

\* out.sort_values("hours_to_finish"), equal hours in frame order
ByHours(out) ==
    StableSort(out, [x \in DOMAIN out, y \in DOMAIN out |->
                        out[x].hours_to_finish < out[y].hours_to_finish])

\* best, one row for each pair in key order, then sorted by hours
SpeedFrame(r, b, ordered) ==
    ByHours(List([n \in DOMAIN ordered |-> SpeedRow(r, b, ordered[n])]))

\* rows of the result for reads r and borrows b, fastest first (data.py 274-291)
SpeedRows(r, b, rn) ==
    SpeedFrame(r, b, InKeyOrder(r, rn, BestPairs(r, b, rn, JoinPairs(r, b, rn))))

\* data.py 241-291, r being the reads kept
SpeedsOf(file, r, b) ==
    IF r = <<>> THEN [raised |-> FALSE, rows |-> <<>>]
    ELSE IF file = "unreadable" THEN [raised |-> TRUE, rows |-> <<>>]
    ELSE IF b = <<>> THEN [raised |-> FALSE, rows |-> <<>>]
    ELSE [raised |-> FALSE,
          rows |-> SpeedRows(r, b, List([i \in DOMAIN r |-> _canon_title(r[i].name)]))]

\* compute_read_speeds(loans_path, reads_df, year): [raised, rows].  An empty frame
\* has no rows or no columns; pd.read_csv raises on an unreadable timeline.
compute_read_speeds(file, lrows, frame, year) ==
    IF file = "missing" \/ frame.rows = <<>> \/ frame.cols = {} THEN [raised |-> FALSE, rows |-> <<>>]
    ELSE IF ~({"status", "name"} \subseteq frame.cols) THEN [raised |-> FALSE, rows |-> <<>>]
    ELSE IF "created_time" \notin frame.cols THEN [raised |-> FALSE, rows |-> <<>>]
    ELSE SpeedsOf(file, SpeedReads(frame, year), Borrows(lrows))

\* --------------------------------------------- compute_metrics (data.py 340-531)

\* Metrics() (data.py 43-82).  A field that the code rounds to n decimals holds
\* the count k of units of 10^-n, for the float nearest to k / 10^n: savings_* in
\* cents; fastest_days in hundredths of a day; finished_audiobook_length_2025 and
\* each hours_to_finish of fastest_top3 in hundredths of an hour;
\* biggest_month_hours and top_author_hours in tenths of an hour.  fastest_hours
\* holds the minutes k of the unrounded float nearest to k / 60, and
\* top_author_minutes whole minutes.  biggest_month and fastest_top3 are nullable:
\* <<>> is None.
DefaultMetrics ==
    [books_checked_out |-> 0, dnfs |-> 0,
     total_books |-> 0, novella_count |-> 0, total_finished |-> 0, percentile |-> 0,
     finished_audiobook_length_2025 |-> 0, biggest_month |-> <<>>, biggest_month_hours |-> 0,
     fastest_title |-> <<>>, fastest_days |-> 0, fastest_hours |-> 0, fastest_top3 |-> <<>>,
     authors_count |-> 0, top_author |-> <<>>, top_author_books |-> 0,
     top_author_minutes |-> 0, top_author_hours |-> 0,
     top_author_book_title_1 |-> <<>>, top_author_book_title_2 |-> <<>>,
     genres_count |-> 0, top_genre |-> <<>>,
     savings_finished |-> 0, savings_dnf |-> 0, savings_combined |-> 0]

\* df[df["finished"].dt.year == year]
YearRows(rows, year) == Pick(rows, {i \in DOMAIN rows : YearIs(rows[i].finished, year)})

\* the completed rows of every year that have a finish date
CompletedAnyYear(rows, year) ==
    Pick(rows, {i \in DOMAIN rows :
                   NormStatus(rows[i].status) = Complete /\ ~IsNull(rows[i].finished)})

\* df_year[df_year["status"] == "complete"]
CompletedRows(rows, year) ==
    LET df_year == YearRows(rows, year)
    IN  Pick(df_year, {i \in DOMAIN df_year : NormStatus(df_year[i].status) = Complete})

\* a novella flag that compares the cell as it is written
IsNovellaExact(c, row) ==
    "genre" \in c /\ Contains(AsStr(row.genre), <<"n", "o", "v", "e", "l", "l", "a">>)

\* the novella flag: the genre cell contains "novella", case-insensitive
IsNovella(c, row) ==
    "genre" \in c /\ Contains(Lower(AsStr(row.genre)), <<"n", "o", "v", "e", "l", "l", "a">>)

\* set(frame[col].map(_canon_title)) of the completed rows of the year
CompletedTitles(completed) == {_canon_title(completed[i].name) : i \in DOMAIN completed}

\* the borrows whose local timestamp falls in the year
BorrowsYear(lrows, year) ==
    LET b == Borrows(lrows)
    IN  Pick(b, {j \in DOMAIN b : YearOf(b[j].borrowed) = year})

\* the except branch: the export stands in for the timeline
\* the two counts the other way round
FallbackCountsSwapped(df_year) ==
    <<Cardinality({i \in DOMAIN df_year : NormStatus(df_year[i].status) = <<"d", "n", "f">>}),
      Len(df_year)>>

FallbackCounts(df_year) ==
    <<Len(df_year),
      Cardinality({i \in DOMAIN df_year : NormStatus(df_year[i].status) = <<"d", "n", "f">>})>>

\* <<books_checked_out, dnfs>> (data.py 373-399).  pd.read_csv raises when the
\* timeline is missing or unreadable, completed["name"] when the export has no
\* name column; both land in the except branch.
CheckoutCounts(c, df_year, completed, file, lrows, year) ==
    IF file # "present" THEN FallbackCounts(df_year)
    ELSE LET borrows_year == BorrowsYear(lrows, year)
             checkout_titles == {borrows_year[j].title_norm : j \in DOMAIN borrows_year}
         IN  IF borrows_year = <<>> THEN <<0, 0>>
             ELSE IF "name" \notin c THEN FallbackCounts(df_year)
             ELSE <<Cardinality(checkout_titles),
                    Cardinality(checkout_titles \ CompletedTitles(completed))>>

\* .str.replace(r"\s*USD\s*", "", regex=True)
RECURSIVE DropUsdFrom(_, _)
DropUsdFrom(s, i) ==
    IF i > Len(s) THEN <<>>
    ELSE LET k == CHOOSE x \in i..(Len(s) + 1) :
                      /\ \A y \in i..(x - 1) : IsSpaceChar(s[y])
                      /\ (x > Len(s) \/ ~IsSpaceChar(s[x]))
             e == CHOOSE x \in (k + 3)..(Len(s) + 1) :
                      /\ \A y \in (k + 3)..(x - 1) : IsSpaceChar(s[y])
                      /\ (x > Len(s) \/ ~IsSpaceChar(s[x]))
         IN  IF MatchAt(s, k, <<"U", "S", "D">>) THEN DropUsdFrom(s, e)
             ELSE <<s[i]>> \o DropUsdFrom(s, i + 1)

RECURSIVE DigitsToInt(_)
DigitsToInt(s) ==
    IF s = <<>> THEN 0 ELSE DigitsToInt(SubSeq(s, 1, Len(s) - 1)) * 10
                           + (CHOOSE i \in DOMAIN Digits : Digits[i] = s[Len(s)]) - 1

\* pd.to_numeric(s, errors="coerce") of a string of digits and dots: null unless
\* it is a decimal numeral, else the float nearest to it
ToNumeric(s) ==
    LET dots == {i \in DOMAIN s : s[i] = "."}
        dot == IF dots = {} THEN Len(s) + 1 ELSE CHOOSE i \in dots : TRUE
        whole == SubSeq(s, 1, dot - 1)
        frac == SubSeq(s, dot + 1, Len(s))
    IN  IF \/ Cardinality(dots) > 1 \/ Len(s) = Cardinality(dots)
           \/ \E i \in DOMAIN s : s[i] \notin Range(Digits) \cup {"."}
        THEN NaT
        ELSE Some(FromRatio(DigitsToInt(whole \o frac), 10 ^ Len(frac)))

CostBlanks ==
    { <<>>, <<"n", "a", "n">>, <<"N", "o", "n", "e">>, <<"f", "r", "e", "e">>,
      <<"F", "r", "e", "e">> }

\* a parse that reads a blank or free cost as 0
ParseCostBlankZero(cell) ==
    LET s == Strip(AsStr(cell))
        numeral == DropChars(s, {x \in Range(s) : ~IsDigit(x) /\ x # "."})
    IN  IF s \in CostBlanks THEN Some(FromInt(0)) ELSE ToNumeric(numeral)

\* the cost cell as a float, or null (data.py 404-414)
ParseCost(cell) ==
    LET s == Strip(AsStr(cell))
        noSym == DropChars(s, {",", "$"})
        noUsd == DropUsdFrom(noSym, 1)
        numeral == DropChars(noUsd, {x \in Range(noUsd) : ~IsDigit(x) /\ x # "."})
    IN  IF s \in CostBlanks THEN NaT ELSE ToNumeric(numeral)

\* valid_costs: the parsed costs of the completed rows, nulls dropped
ValidCosts(completed) ==
    LET cost_num == List([i \in DOMAIN completed |-> ParseCost(completed[i].cost)])
        kept == Pick(cost_num, {i \in DOMAIN cost_num : ~IsNull(cost_num[i])})
    IN  [i \in DOMAIN kept |-> Val(kept[i])]

\* <<savings_finished, savings_dnf, savings_combined>> in cents (data.py 401-423):
\* each is a float64 rounded by np.round(x, 2), the float nearest to a whole
\* number of cents
Savings(c, completed, dnfs) ==
    LET valid_costs == ValidCosts(completed)
        total == FSum(valid_costs)
        avg_cost == FDiv(total, Len(valid_costs))
        savings_finished == NpRound(total, 100)
        savings_dnf == NpRound(FMul(avg_cost, dnfs), 100)
        savings_combined == NpRound(FAdd(FromRatio(savings_finished, 100),
                                         FromRatio(savings_dnf, 100)), 100)
    IN  IF "cost" \notin c \/ valid_costs = <<>> THEN <<0, 0, 0>>
        ELSE <<savings_finished, savings_dnf, savings_combined>>

\* the audiobook subset of the completed rows (data.py 426-431)
AudioRows(c, completed) ==
    IF "format" \notin c THEN <<>>
    ELSE Pick(completed, {i \in DOMAIN completed :
                             Contains(Lower(Strip(AsStr(completed[i].format))),
                                      <<"a", "u", "d", "i", "o", "b", "o", "o", "k">>)})

\* pd.to_numeric(cell, errors="coerce").fillna(0)
NumOrZero(x) == IF IsNull(x) THEN 0 ELSE Val(x)

\* ab_hours * 60 + ab_minutes of a row
HoursMinutes(row) == NumOrZero(row.ab_hours) * 60 + NumOrZero(row.ab_minutes)

\* the duration of an audiobook row in minutes: the explicit length when the frame
\* has the column and the cell is not zero, else hours and minutes (data.py 437-443)
RowMinutes(c, row) ==
    IF "audiobook_length_minutes" \in c /\ NumOrZero(row.audiobook_length_minutes) # 0
    THEN NumOrZero(row.audiobook_length_minutes)
    ELSE HoursMinutes(row)

\* whether the audiobook block raises (data.py 433-481): with no ab_hours or
\* ab_minutes column, aud.get(col, 0) is the int 0, pd.to_numeric(0) a scalar and
\* .fillna an AttributeError; with no author column aud.get("author", "") is a
\* str and .astype an AttributeError; with no name column the aggregation
\* ("name", "count") is a KeyError.  None of them is inside a try.
AudioRaises(c, aud) ==
    aud # <<>> /\ ~({"ab_hours", "ab_minutes", "author", "name"} \subseteq c)

\* month names in the order groupby("month_name") returns them
MonthsSorted == <<4, 8, 12, 2, 1, 7, 6, 3, 5, 11, 10, 9>>

MonthName ==
    << <<"J", "a", "n", "u", "a", "r", "y">>, <<"F", "e", "b", "r", "u", "a", "r", "y">>,
       <<"M", "a", "r", "c", "h">>, <<"A", "p", "r", "i", "l">>, <<"M", "a", "y">>,
       <<"J", "u", "n", "e">>, <<"J", "u", "l", "y">>, <<"A", "u", "g", "u", "s", "t">>,
       <<"S", "e", "p", "t", "e", "m", "b", "e", "r">>, <<"O", "c", "t", "o", "b", "e", "r">>,
       <<"N", "o", "v", "e", "m", "b", "e", "r">>, <<"D", "e", "c", "e", "m", "b", "e", "r">> >>

\* monthly_hours of month mo: the sum of ab_hours plus the sum of ab_minutes / 60
\* over the audiobooks finished in it, a float (data.py 449-450)
MonthlyHours(aud, mo) ==
    LET mine == Pick(aud, {i \in DOMAIN aud : MonthOf(Val(aud[i].finished)) = mo})
    IN  FAdd(FromInt(Sum([i \in DOMAIN mine |-> NumOrZero(mine[i].ab_hours)])),
             FromRatio(Sum([i \in DOMAIN mine |-> NumOrZero(mine[i].ab_minutes)]), 60))

\* monthly_hours.idxmax(): the first month of the greatest sum, in groupby order
BiggestMonth(aud) ==
    LET present == {k \in DOMAIN MonthsSorted :
                       \E i \in DOMAIN aud : MonthOf(Val(aud[i].finished)) = MonthsSorted[k]}
        months == Pick(MonthsSorted, present)
        hours == List([k \in DOMAIN months |-> MonthlyHours(aud, months[k])])
        best == CHOOSE k \in DOMAIN months :
                    /\ \A x \in DOMAIN months : ~FLess(hours[k], hours[x])
                    /\ \A x \in 1..(k - 1) : FLess(hours[x], hours[k])
    IN  months[best]

\* aud["author"].astype(str).str.strip()
AuthorOf(row) == Strip(AsStr(row.author))

\* a ranking by minutes alone
TopAuthorByMinutes(c, aud) ==
    LET authors == {AuthorOf(aud[i]) : i \in DOMAIN aud}
        books(a) == Cardinality({i \in DOMAIN aud : AuthorOf(aud[i]) = a /\ aud[i].name # NaN})
        minutes(a) == Sum([i \in DOMAIN aud |->
                              IF AuthorOf(aud[i]) = a THEN RowMinutes(c, aud[i]) ELSE 0])
        top == CHOOSE a \in authors : \A b \in authors : minutes(b) <= minutes(a)
    IN  [author |-> top, books |-> books(top), minutes |-> minutes(top)]

\* agg sorted by books and minutes, both descending: the top author's
\* [author, books, minutes] (data.py 470-477); groupby gives the authors in order
TopAuthor(c, aud) ==
    LET authors == {AuthorOf(aud[i]) : i \in DOMAIN aud}
        books(a) == Cardinality({i \in DOMAIN aud : AuthorOf(aud[i]) = a /\ aud[i].name # NaN})
        minutes(a) == Sum([i \in DOMAIN aud |->
                              IF AuthorOf(aud[i]) = a THEN RowMinutes(c, aud[i]) ELSE 0])
        before(a, b) == \/ books(a) > books(b)
                        \/ (books(a) = books(b) /\ minutes(a) > minutes(b))
                        \/ (books(a) = books(b) /\ minutes(a) = minutes(b) /\ StrLess(a, b))
        top == CHOOSE a \in authors : \A b \in authors : b = a \/ before(a, b)
    IN  [author |-> top, books |-> books(top), minutes |-> minutes(top)]

\* the top author's rows by minutes descending, equal minutes in frame order
TopAuthorReads(c, aud, author) ==
    LET mine == Pick(aud, {i \in DOMAIN aud : AuthorOf(aud[i]) = author})
    IN  StableSort(mine, [x \in DOMAIN mine, y \in DOMAIN mine |->
                             RowMinutes(c, mine[x]) > RowMinutes(c, mine[y])])

\* the fragment as it is written
Untitled(s) == s

\* str.title(): each character gives its lower form after a cased character and
\* its title form otherwise
RECURSIVE TitleFrom(_, _)
TitleFrom(s, i) ==
    IF i > Len(s) THEN <<>>
    ELSE (IF i > 1 /\ IsCased(s[i - 1]) THEN <<LowerChar(s[i])>> ELSE TitleChar(s[i]))
         \o TitleFrom(s, i + 1)

Title(s) == TitleFrom(s, 1)

\* re.split(r"[,;/]", s)
RECURSIVE Split(_, _)
Split(s, seps) ==
    LET cuts == {i \in DOMAIN s : s[i] \in seps}
    IN  IF cuts = {} THEN <<s>>
        ELSE LET i == CHOOSE x \in cuts : \A y \in cuts : x <= y
             IN  <<SubSeq(s, 1, i - 1)>> \o Split(SubSeq(s, i + 1, Len(s)), seps)

\* the genres of one genre cell: brackets and quotes removed, split on , ; /,
\* each fragment stripped, empty ones dropped, title-cased (data.py 518-526)
GenreFragments(cell) ==
    LET parts == Split(DropChars(AsStr(cell), {"[", "]", "'"}), {",", ";", "/"})
        stripped == List([i \in DOMAIN parts |-> Strip(parts[i])])
        kept == Pick(stripped, {i \in DOMAIN stripped : stripped[i] # <<>>})
    IN  List([i \in DOMAIN kept |-> Title(kept[i])])

\* norm: the fragments of all completed rows, in order
RECURSIVE AllGenres(_)
AllGenres(completed) ==
    IF completed = <<>> THEN <<>>
    ELSE GenreFragments(Head(completed).genre) \o AllGenres(Tail(completed))

\* <<genres_count, top_genre>>: value_counts keeps equal counts in order of first
\* appearance and idxmax returns the first of the greatest
GenreCounts(c, completed) ==
    LET norm == AllGenres(completed)
        count(g) == Cardinality({i \in DOMAIN norm : norm[i] = g})
        first(g) == CHOOSE i \in DOMAIN norm : norm[i] = g /\ \A j \in 1..(i - 1) : norm[j] # g
        top == CHOOSE g \in Range(norm) :
                   \A h \in Range(norm) :
                       count(h) < count(g) \/ (count(h) = count(g) /\ first(g) <= first(h))
    IN  IF "genre" \notin c \/ norm = <<>> THEN <<0, <<>>>>
        ELSE <<Cardinality(Range(norm)), top>>

\* the head(3) of the speeds frame as fastest_top3 (data.py 502-509)
Top3(rows) ==
    [n \in 1..(IF Len(rows) < 3 THEN Len(rows) ELSE 3) |->
        [title |-> _display_title(AsStr(rows[n].title)),
         author |-> AsStr(rows[n].author),
         hours_to_finish |-> PyRound(FromRatio(rows[n].hours_to_finish, 60), 100)]]

\* the reading counts (data.py 367-371)
SetCounts(m, total, novellas, books) ==
    [m EXCEPT !.novella_count = novellas,
              !.total_books = books,
              !.total_finished = total,
              !.percentile = estimate_percentile(total)]

SetCheckouts(m, counts) == [m EXCEPT !.books_checked_out = counts[1], !.dnfs = counts[2]]

SetSavings(m, savings) ==
    [m EXCEPT !.savings_finished = savings[1],
              !.savings_dnf = savings[2],
              !.savings_combined = savings[3]]

SetGenres(m, genres) == [m EXCEPT !.genres_count = genres[1], !.top_genre = genres[2]]

\* the audiobook totals and the biggest month (data.py 433-453)
SetAudio(m, total_minutes, month, month_hours) ==
    [m EXCEPT !.finished_audiobook_length_2025 = NpRound(FromRatio(total_minutes, 60), 100),
              !.biggest_month = Some(MonthName[month]),
              !.biggest_month_hours = NpRound(month_hours, 10)]

\* the top author and the two longest titles (data.py 466-492)
SetAuthor(m, authors, top, titles) ==
    [m EXCEPT !.authors_count = Cardinality(authors),
              !.top_author = top.author,
              !.top_author_books = top.books,
              !.top_author_minutes = top.minutes,
              !.top_author_hours = PyRound(FromRatio(top.minutes, 60), 10),
              !.top_author_book_title_1 = _display_title(AsStr(titles[1].name)),
              !.top_author_book_title_2 =
                  IF Len(titles) > 1 THEN _display_title(AsStr(titles[2].name)) ELSE <<>>]

\* the fastest reads (data.py 494-513): an exception or an empty frame leaves []
SetFastest(m, sp) ==
    IF sp.raised \/ sp.rows = <<>> THEN [m EXCEPT !.fastest_top3 = Some(<<>>)]
    ELSE [m EXCEPT !.fastest_title = _display_title(AsStr(sp.rows[1].title)),
                   !.fastest_hours = sp.rows[1].hours_to_finish,
                   !.fastest_days = PyRound(FDiv(FromRatio(sp.rows[1].hours_to_finish, 60), 24), 100),
                   !.fastest_top3 = Some(Top3(sp.rows))]

WithAuthor(m, c, aud, top) ==
    SetAuthor(m, {AuthorOf(aud[i]) : i \in DOMAIN aud}, top, TopAuthorReads(c, aud, top.author))

WithMonth(m, c, aud, month) ==
    SetAudio(m, Sum([i \in DOMAIN aud |-> RowMinutes(c, aud[i])]), month, MonthlyHours(aud, month))

\* the two blocks guarded by "if not aud.empty"
WithAudio(m, c, aud) ==
    IF aud = <<>> THEN m
    ELSE WithAuthor(WithMonth(m, c, aud, BiggestMonth(aud)), c, aud, TopAuthor(c, aud))

\* data.py 401-531 once the counts are known
MetricsOfCounts(c, completed, counts, aud, sp) ==
    IF AudioRaises(c, aud) THEN [status |-> "raised"]
    ELSE [status |-> "ok",
          m |-> SetGenres(
                    SetFastest(
                        WithAudio(
                            SetSavings(SetCheckouts(DefaultMetrics, counts),
                                       Savings(c, completed, counts[2])),
                            c, aud),
                        sp),
                    GenreCounts(c, completed))]

WithCounts(r, c, completed) ==
    IF r.status = "ok"
    THEN [r EXCEPT !.m = SetCounts(r.m, Len(completed),
                                Cardinality({i \in DOMAIN completed :
                                                IsNovella(c, completed[i])}),
                                Cardinality({i \in DOMAIN completed :
                                                ~IsNovella(c, completed[i])}))]
    ELSE r

\* data.py 364-531 once the rows of the year are known
MetricsOfYear(c, df_year, completed, file, lrows, year, sp) ==
    WithCounts(MetricsOfCounts(c, completed,
                               CheckoutCounts(c, df_year, completed, file, lrows, year),
                               AudioRows(c, completed), sp),
               c, completed)

\* data.py 351-531: rows is the frame with its status column in normal form
MetricsOfFrame(c, rows, year, file, lrows) ==
    MetricsOfYear(c, YearRows(rows, year), CompletedRows(rows, year), file, lrows, year,
                  compute_read_speeds(file, lrows, [loaded |-> TRUE, cols |-> c, rows |-> rows],
                                      year))

\* compute_metrics(df, year, loans_path): [status |-> "ok", m |-> Metrics], or
\* [status |-> "raised"] when an exception leaves the function
compute_metrics(frame, year, file, lrows) ==
    IF frame.rows = <<>> \/ frame.cols = {} \/ ~({"status", "finished"} \subseteq frame.cols)
    THEN [status |-> "ok", m |-> DefaultMetrics]
    ELSE MetricsOfFrame(frame.cols,
                        List([i \in DOMAIN frame.rows |->
                                 [frame.rows[i] EXCEPT !.status = NormStatus(frame.rows[i].status)]]),
                        year, file, lrows)

\* ================================================== the exports and the caller
\* (app.py load_metrics, test_metrics.py, debug_read_speeds.py): rows are written
\* to the two export files, then load_data reads the reads export and
\* compute_metrics or compute_read_speeds is called on the frame

\* the columns of a full reads export
ExportCols ==
    {"name", "author", "status", "finished", "created_time", "format", "genre", "cost",
     "ab_hours", "ab_minutes", "page_count"}

\* scenario A's export: no page count
ScenarioACols == ExportCols \ {"page_count"}

\* exports with a column missing, each optional column in turn; without
\* created_time load_data skips the corrections, so a frame without name reaches
\* compute_metrics
ColMenu ==
    {ExportCols, ScenarioACols, ExportCols \ {"status"}, ExportCols \ {"name", "created_time"},
     ExportCols \cup {"audiobook_length_minutes"},
     ExportCols \ {"author", "created_time", "page_count"}}
    \cup {ExportCols \ {col} :
              col \in {"author", "name", "ab_hours", "ab_minutes", "format", "genre", "cost",
                       "page_count", "created_time"}}

\* rows of the reads export, by name
ReadRows ==
    [
      \* scenario A's record: a completed audiobook
      Mate |->
      [name |-> <<"M", "a", "t", "e", " ", "(", "#", "2", ")">>,
       author |-> <<"A", "l", "i", " ", "H", "a", "z", "e", "l", "w", "o", "o", "d">>,
       status |-> <<"C", "o", "m", "p", "l", "e", "t", "e">>, finished |-> Some(DT(2025, 10, 8, 0, 0)),
       created_time |-> Some(DT(2025, 10, 8, 9, 15)),
       format |-> <<"A", "u", "d", "i", "o", "b", "o", "o", "k">>,
       genre |-> <<"R", "o", "m", "a", "n", "c", "e">>,
       cost |-> <<"$", "1", "5", ".", "9", "9">>,
       ab_hours |-> Some(10), ab_minutes |-> Some(30), page_count |-> NaT,
       audiobook_length_minutes |-> NaT],
      \* the same record in an export that has a page count
      MateLong |->
      [name |-> <<"M", "a", "t", "e", " ", "(", "#", "2", ")">>,
       author |-> <<"A", "l", "i", " ", "H", "a", "z", "e", "l", "w", "o", "o", "d">>,
       status |-> <<"C", "o", "m", "p", "l", "e", "t", "e">>, finished |-> Some(DT(2025, 10, 8, 0, 0)),
       created_time |-> Some(DT(2025, 10, 8, 9, 15)),
       format |-> <<"A", "u", "d", "i", "o", "b", "o", "o", "k">>,
       genre |-> <<"R", "o", "m", "a", "n", "c", "e">>,
       cost |-> <<"$", "1", "5", ".", "9", "9">>,
       ab_hours |-> Some(10), ab_minutes |-> Some(30), page_count |-> Some(400),
       audiobook_length_minutes |-> NaT],
      \* a completed e-book of the target year
      Dune |->
      [name |-> <<"D", "u", "n", "e">>,
       author |-> <<"F", "r", "a", "n", "k", " ", "H", "e", "r", "b", "e", "r", "t">>,
       status |-> <<" ", "c", "o", "m", "p", "l", "e", "t", "e">>, finished |-> Some(DT(2025, 5, 10, 0, 0)),
       created_time |-> Some(DT(2025, 5, 10, 21, 0)),
       format |-> <<"e", "B", "o", "o", "k">>,
       genre |-> <<"S", "c", "i", "-", "F", "i", ",", " ", "A", "d", "v", "e", "n", "t", "u", "r", "e">>,
       cost |-> <<"1", "2", ".", "9", "9", " ", "U", "S", "D">>,
       ab_hours |-> NaT, ab_minutes |-> NaT, page_count |-> Some(612),
       audiobook_length_minutes |-> NaT],
      \* a later read of the same work, finished the year after
      DuneReread |->
      [name |-> <<"D", "u", "n", "e", " ", "emdash", " ", "r", "e", "r", "e", "a", "d">>,
       author |-> <<"F", "r", "a", "n", "k", " ", "H", "e", "r", "b", "e", "r", "t">>,
       status |-> <<"C", "o", "m", "p", "l", "e", "t", "e">>, finished |-> Some(DT(2026, 1, 3, 0, 0)),
       created_time |-> Some(DT(2026, 1, 3, 8, 0)),
       format |-> <<"A", "u", "d", "i", "o", "b", "o", "o", "k">>,
       genre |-> <<"s", "c", "i", "-", "f", "i">>,
       cost |-> <<"F", "r", "e", "e">>,
       ab_hours |-> Some(21), ab_minutes |-> Some(2), page_count |-> Some(612),
       audiobook_length_minutes |-> NaT],
      \* scenario A's record logged a year before the corrected time
      MateOld |->
      [name |-> <<"M", "a", "t", "e", " ", "(", "#", "2", ")">>,
       author |-> <<"A", "l", "i", " ", "H", "a", "z", "e", "l", "w", "o", "o", "d">>,
       status |-> <<"C", "o", "m", "p", "l", "e", "t", "e">>, finished |-> Some(DT(2025, 10, 8, 0, 0)),
       created_time |-> Some(DT(2024, 10, 8, 9, 15)),
       format |-> <<"A", "u", "d", "i", "o", "b", "o", "o", "k">>,
       genre |-> <<"R", "o", "m", "a", "n", "c", "e">>,
       cost |-> <<"$", "1", "5", ".", "9", "9">>,
       ab_hours |-> Some(10), ab_minutes |-> Some(30), page_count |-> NaT,
       audiobook_length_minutes |-> NaT],
      \* a second audiobook of scenario A's author, its explicit length left at 0
      Bride |->
      [name |-> <<"B", "r", "i", "d", "e">>,
       author |-> <<"A", "l", "i", " ", "H", "a", "z", "e", "l", "w", "o", "o", "d">>,
       status |-> <<"C", "o", "m", "p", "l", "e", "t", "e">>, finished |-> Some(DT(2025, 10, 20, 0, 0)),
       created_time |-> Some(DT(2025, 10, 20, 18, 0)),
       format |-> <<"A", "u", "d", "i", "o", "b", "o", "o", "k">>,
       genre |-> <<"R", "o", "m", "a", "n", "c", "e">>,
       cost |-> NaN,
       ab_hours |-> Some(8), ab_minutes |-> Some(0), page_count |-> Some(410),
       audiobook_length_minutes |-> Some(0)],
      \* an audiobook whose duration is given by its explicit length only
      FourthWing |->
      [name |-> <<"F", "o", "u", "r", "t", "h", " ", "W", "i", "n", "g", " ", "(", "#", "1", ")">>,
       author |-> <<"R", "e", "b", "e", "c", "c", "a", " ", "Y", "a", "r", "r", "o", "s">>,
       status |-> <<"C", "o", "m", "p", "l", "e", "t", "e">>, finished |-> Some(DT(2025, 1, 12, 0, 0)),
       created_time |-> Some(DT(2025, 1, 12, 20, 0)),
       format |-> <<"A", "u", "d", "i", "o", "b", "o", "o", "k">>,
       genre |-> <<"F", "a", "n", "t", "a", "s", "y">>,
       cost |-> NaN,
       ab_hours |-> NaT, ab_minutes |-> NaT, page_count |-> Some(517),
       audiobook_length_minutes |-> Some(1200)],
      \* the novella below, completed
      BintiDone |->
      [name |-> <<"B", "i", "n", "t", "i">>,
       author |-> <<"N", "n", "e", "d", "i", " ", "O", "k", "o", "r", "a", "f", "o", "r">>,
       status |-> <<"c", "o", "m", "p", "l", "e", "t", "e", " ">>, finished |-> Some(DT(2025, 7, 4, 0, 0)),
       created_time |-> Some(DT(2025, 7, 4, 12, 0)),
       format |-> <<"e", "B", "o", "o", "k">>,
       genre |-> <<"N", "o", "v", "e", "l", "l", "a", ";", " ", "S", "c", "i", "-", "F", "i">>,
       cost |-> NaN,
       ab_hours |-> NaT, ab_minutes |-> NaT, page_count |-> Some(96),
       audiobook_length_minutes |-> NaT],
      \* a novella that was not finished
      Binti |->
      [name |-> <<"B", "i", "n", "t", "i">>,
       author |-> <<"N", "n", "e", "d", "i", " ", "O", "k", "o", "r", "a", "f", "o", "r">>,
       status |-> <<"D", "N", "F">>, finished |-> Some(DT(2025, 7, 4, 0, 0)),
       created_time |-> Some(DT(2025, 7, 4, 12, 0)),
       format |-> <<"e", "B", "o", "o", "k">>,
       genre |-> <<"N", "o", "v", "e", "l", "l", "a", ";", " ", "S", "c", "i", "-", "F", "i">>,
       cost |-> NaN,
       ab_hours |-> NaT, ab_minutes |-> NaT, page_count |-> Some(96),
       audiobook_length_minutes |-> NaT],
      \* a completed audiobook logged a year early, with a free-text cost
      Onyx |->
      [name |-> <<"O", "n", "y", "x", " ", "S", "t", "o", "r", "m", " ", "(", "#", "3", ")">>,
       author |-> <<"R", "e", "b", "e", "c", "c", "a", " ", "Y", "a", "r", "r", "o", "s">>,
       status |-> <<"C", "o", "m", "p", "l", "e", "t", "e">>, finished |-> Some(DT(2025, 1, 25, 0, 0)),
       created_time |-> Some(DT(2024, 1, 25, 10, 0)),
       format |-> <<"A", "u", "d", "i", "o", "b", "o", "o", "k">>,
       genre |-> <<"F", "a", "n", "t", "a", "s", "y", ";", " ", "R", "o", "m", "a", "n", "c", "e">>,
       cost |-> <<"f", "r", "e", "e">>,
       ab_hours |-> Some(23), ab_minutes |-> Some(47), page_count |-> Some(544),
       audiobook_length_minutes |-> NaT],
      \* a record whose dates do not parse
      Undated |->
      [name |-> <<"M", "a", "t", "e">>,
       author |-> <<"A", "l", "i", " ", "H", "a", "z", "e", "l", "w", "o", "o", "d">>,
       status |-> <<"C", "o", "m", "p", "l", "e", "t", "e">>, finished |-> NaT,
       created_time |-> NaT,
       format |-> <<"A", "u", "d", "i", "o", "b", "o", "o", "k">>,
       genre |-> NaN,
       cost |-> <<"$", "4", ".", "5", "0">>,
       ab_hours |-> Some(1), ab_minutes |-> Some(0), page_count |-> Some(320),
       audiobook_length_minutes |-> NaT],
      \* scenario C's records
      GenreA |->
      [name |-> <<"D", "u", "n", "e">>,
       author |-> <<"F", "r", "a", "n", "k", " ", "H", "e", "r", "b", "e", "r", "t">>,
       status |-> <<"C", "o", "m", "p", "l", "e", "t", "e">>, finished |-> Some(DT(2025, 5, 10, 0, 0)),
       created_time |-> Some(DT(2025, 5, 10, 21, 0)),
       format |-> <<"e", "B", "o", "o", "k">>,
       genre |-> <<"F", "a", "n", "t", "a", "s", "y", ";", " ", "A", "d", "v", "e", "n", "t", "u", "r", "e">>,
       cost |-> NaN,
       ab_hours |-> NaT, ab_minutes |-> NaT, page_count |-> Some(612),
       audiobook_length_minutes |-> NaT],
      GenreB |->
      [name |-> <<"D", "u", "n", "e">>,
       author |-> <<"F", "r", "a", "n", "k", " ", "H", "e", "r", "b", "e", "r", "t">>,
       status |-> <<"C", "o", "m", "p", "l", "e", "t", "e">>, finished |-> Some(DT(2025, 5, 10, 0, 0)),
       created_time |-> Some(DT(2025, 5, 10, 21, 0)),
       format |-> <<"e", "B", "o", "o", "k">>,
       genre |-> <<"f", "a", "n", "t", "a", "s", "y">>,
       cost |-> NaN,
       ab_hours |-> NaT, ab_minutes |-> NaT, page_count |-> Some(612),
       audiobook_length_minutes |-> NaT],
      \* a list-formatted genre cell
      GenreC |->
      [name |-> <<"D", "u", "n", "e">>,
       author |-> <<"F", "r", "a", "n", "k", " ", "H", "e", "r", "b", "e", "r", "t">>,
       status |-> <<"C", "o", "m", "p", "l", "e", "t", "e">>, finished |-> Some(DT(2025, 5, 10, 0, 0)),
       created_time |-> Some(DT(2025, 5, 10, 21, 0)),
       format |-> <<"e", "B", "o", "o", "k">>,
       genre |-> <<"[", "'", "S", "c", "i", "-", "F", "i", "'", ",", " ", "'", "f", "a", "n", "t", "a", "s", "y", " ", "'", "]", "/">>,
       cost |-> NaN,
       ab_hours |-> NaT, ab_minutes |-> NaT, page_count |-> Some(612),
       audiobook_length_minutes |-> NaT],
      \* a genre cell with letters and whitespace beyond ASCII
      GenreD |->
      [name |-> <<"D", "u", "n", "e">>,
       author |-> <<"F", "r", "a", "n", "k", " ", "H", "e", "r", "b", "e", "r", "t">>,
       status |-> <<"C", "o", "m", "p", "l", "e", "t", "e">>, finished |-> Some(DT(2025, 5, 10, 0, 0)),
       created_time |-> Some(DT(2025, 5, 10, 21, 0)),
       format |-> <<"e", "B", "o", "o", "k">>,
       genre |-> <<"C", "A", "F", "U+00C9", "U+3000", ";", " ", "U+00DF", "a">>,
       cost |-> NaN,
       ab_hours |-> NaT, ab_minutes |-> NaT, page_count |-> Some(612),
       audiobook_length_minutes |-> NaT]
    ]

\* events of the timeline export, by name
LoanEvents ==
    [
      \* scenario A's checkout: 2025-10-01 00:00 local (EDT) is 04:00 UTC
      MateCheckout |->
      [title |-> <<"M", "a", "t", "e">>,
       activity |-> <<"B", "o", "r", "r", "o", "w", "e", "d">>, timestamp |-> Some(DT(2025, 10, 1, 4, 0)),
       library |-> <<"I", "n", "d", "y", " ", "P", "L">>],
      \* an earlier loan of the same title
      MateEarlierCheckout |->
      [title |-> <<"M", "a", "t", "e">>,
       activity |-> <<"B", "o", "r", "r", "o", "w", "e", "d">>, timestamp |-> Some(DT(2025, 9, 1, 14, 0)),
       library |-> <<"I", "n", "d", "y", " ", "P", "L">>],
      \* a timeline row that is no checkout
      MateReturn |->
      [title |-> <<"M", "a", "t", "e">>,
       activity |-> <<"R", "e", "t", "u", "r", "n", "e", "d">>, timestamp |-> Some(DT(2025, 10, 5, 10, 0)),
       library |-> <<"I", "n", "d", "y", " ", "P", "L">>],
      \* a checkout before the first finish of Dune: 2025-01-01 03:00 UTC is
      \* 2024-12-31 22:00 local (EST)
      DuneCheckout |->
      [title |-> <<"D", "u", "n", "e">>,
       activity |-> <<"B", "o", "r", "r", "o", "w", "e", "d">>, timestamp |-> Some(DT(2025, 1, 1, 3, 0)),
       library |-> <<"I", "n", "d", "y", " ", "P", "L">>],
      \* 2026-01-01 03:00 UTC is 2025-12-31 22:00 local (EST)
      DuneLateCheckout |->
      [title |-> <<"D", "u", "n", "e">>,
       activity |-> <<"C", "h", "e", "c", "k", "o", "u", "t">>, timestamp |-> Some(DT(2026, 1, 1, 3, 0)),
       library |-> <<"C", "a", "r", "m", "e", "l", " ", "P", "L">>],
      \* scenario B's checkout: a title no reading record has
      PiranesiCheckout |->
      [title |-> <<"P", "i", "r", "a", "n", "e", "s", "i">>,
       activity |-> <<"B", "o", "r", "r", "o", "w", "e", "d">>, timestamp |-> Some(DT(2025, 8, 1, 16, 0)),
       library |-> <<"I", "n", "d", "y", " ", "P", "L">>]
    ]

\* a completed e-book of the target year with the given cost cell
CostRow(cell) == [ReadRows.Dune EXCEPT !.cost = cell]

MaxReads == 2
MaxLoans == 2
MaxColReads == 1
MaxColLoans == 1
MaxGenreReads == 3
MaxCostReads == 2
MaxCostLoans == 2

ReadMenu == {ReadRows.MateLong, ReadRows.Dune, ReadRows.DuneReread}
LoanMenu ==
    {LoanEvents.MateCheckout, LoanEvents.MateEarlierCheckout, LoanEvents.DuneCheckout,
     LoanEvents.DuneLateCheckout, LoanEvents.PiranesiCheckout}
ColReadMenu ==
    {ReadRows.Mate, ReadRows.Dune, ReadRows.Binti, ReadRows.Onyx, ReadRows.Undated}
ColLoanMenu == {LoanEvents.MateCheckout, LoanEvents.MateReturn}
GenreMenu == {ReadRows.GenreA, ReadRows.GenreB, ReadRows.GenreC, ReadRows.GenreD}
\* records with priced, free, blank and missing cost cells, and one whose digit
\* pd.to_numeric does not read
CostMenu ==
    {CostRow(cell) :
        cell \in { <<"$", "1", "2", ".", "9", "9">>,
                   <<"1", "2", ".", "9", "9", " ", "U", "S", "D">>,
                   <<"$", "1", "5", ".", "9", "9">>, <<"$", "0", ".", "3", "0">>,
                   <<"F", "r", "e", "e">>, <<" ", " ">>, <<"$", "U+0663">>, NaN }}
CostLoanMenu == {LoanEvents.PiranesiCheckout, LoanEvents.MateCheckout}
\* the records of the exports with novellas, with corrected titles, with
\* audiobooks, and of the page's export
Menus ==
    [Novella |-> {ReadRows.Binti, ReadRows.BintiDone, ReadRows.Dune, ReadRows.DuneReread,
                  ReadRows.Undated},
     Fixes |-> {ReadRows.Mate, ReadRows.MateOld, ReadRows.Onyx, ReadRows.Undated, ReadRows.Dune},
     Audio |-> {ReadRows.Mate, ReadRows.Bride, ReadRows.Onyx, ReadRows.FourthWing,
                ReadRows.Dune},
     App |-> {ReadRows.Dune, ReadRows.Mate}]

NoSpeeds == [raised |-> FALSE, rows |-> <<>>]

InitTables(colSets, files) ==
    /\ cols \in colSets
    /\ reads = <<>>
    /\ loansFile \in files
    /\ loans = <<>>
    /\ df = NoFrame
    /\ res = NoResult
    /\ speeds = NoSpeeds
    /\ pc = "edit"
    /\ arg = <<>>
    /\ ret = <<>>
    /\ wrote = FALSE
    /\ cache = <<>>

\* a row is logged in the reads export
ExportRow(menu, max) ==
    /\ pc = "edit"
    /\ Len(reads) < max
    /\ \E r \in menu : reads' = Append(reads, r)
    /\ UNCHANGED <<cols, loansFile, loans, df, res, speeds, pc, arg, ret, wrote, cache>>

\* the library app appends an event to the timeline export
TimelineRow(menu, max) ==
    /\ pc = "edit"
    /\ loansFile = "present"
    /\ Len(loans) < max
    /\ \E e \in menu : loans' = Append(loans, e)
    /\ UNCHANGED <<cols, reads, loansFile, df, res, speeds, pc, arg, ret, wrote, cache>>

\* df = load_data(BOOKS), persist_fixes being True: the frame is returned whatever
\* becomes of the write-back
LoadData ==
    /\ pc = "edit"
    /\ df' = load_data(cols, reads)
    /\ pc' = IF df'.loaded THEN "loaded" ELSE "failed"
    /\ \E io \in PersistOutcomes :
           /\ wrote' = Rewrites(cols, reads, df', io)
           /\ reads' = IF wrote' THEN Written(reads, df') ELSE reads
    /\ UNCHANGED <<cols, loansFile, loans, res, speeds, arg, ret, cache>>

\* m = compute_metrics(df, year=2025, loans_path=LOANS)
ComputeMetrics ==
    /\ pc = "loaded"
    /\ res' = compute_metrics(df, TargetYear, loansFile, loans)
    /\ pc' = "computed"
    /\ UNCHANGED <<cols, reads, loansFile, loans, df, speeds, arg, ret, wrote, cache>>

\* debug_read_speeds.py 17-35: the script comes to
\* speeds = compute_read_speeds(LOANS, df, year=YEAR) when r["status"],
\* r["finished"], r_year["name"] and pd.read_csv(LOANS) have not raised, and is
\* ended by the exception otherwise
ComputeReadSpeeds ==
    /\ pc = "loaded"
    /\ IF {"status", "finished", "name"} \subseteq df.cols /\ loansFile = "present"
       THEN /\ speeds' = compute_read_speeds(loansFile, loans, df, TargetYear)
            /\ pc' = "speeds"
       ELSE /\ speeds' = speeds
            /\ pc' = "stopped"
    /\ UNCHANGED <<cols, reads, loansFile, loans, df, res, arg, ret, wrote, cache>>

Files == {"present", "missing", "unreadable"}

Init == InitTables({ExportCols}, Files)

Next ==
    \/ ExportRow(ReadMenu, MaxReads)
    \/ TimelineRow(LoanMenu, MaxLoans)
    \/ LoadData
    \/ ComputeMetrics
    \/ ComputeReadSpeeds

Spec == Init /\ [][Next]_vars

\* exports with columns missing
NextCols ==
    \/ ExportRow(ColReadMenu, MaxColReads)
    \/ TimelineRow(ColLoanMenu, MaxColLoans)
    \/ LoadData
    \/ ComputeMetrics
    \/ ComputeReadSpeeds

SpecCols == InitTables(ColMenu, Files) /\ [][NextCols]_vars

\* exports that differ in their genre cells
NextGenres ==
    \/ ExportRow(GenreMenu, MaxGenreReads)
    \/ LoadData
    \/ ComputeMetrics

SpecGenres == InitTables({ExportCols}, {"missing"}) /\ [][NextGenres]_vars

\* exports that differ in their cost cells, with checkouts that were not finished
NextCosts ==
    \/ ExportRow(CostMenu, MaxCostReads)
    \/ TimelineRow(CostLoanMenu, MaxCostLoans)
    \/ LoadData
    \/ ComputeMetrics

SpecCosts == InitTables({ExportCols}, {"present"}) /\ [][NextCosts]_vars

\* ======================================================= direct calls of the
\* pure functions (test_metrics.py and debug_read_speeds.py call into data.py the
\* same way): the argument is drawn at Init, each step applies the function

MaxPieces == 3
NegBooks == 2
MaxBooks == 52

TitlePieces ==
    { <<"M", "a", "t", "e">>, <<"m", "a", "t", "e">>, <<" ">>, <<"(", "#", "2", ")">>,
      <<"r", "e", "r", "e", "a", "d">>, <<"\n">>, <<"[">>, <<"emdash">>, <<"_", "S">>,
      <<"U+00C9">>, <<"U+3000">> }

RECURSIVE Concats(_)
Concats(n) ==
    IF n = 0 THEN {<<>>}
    ELSE LET prev == Concats(n - 1)
         IN  prev \cup {p \o q : p \in prev, q \in TitlePieces}

Idle ==
    /\ cols = {} /\ reads = <<>> /\ loansFile = "missing" /\ loans = <<>>
    /\ df = NoFrame /\ res = NoResult /\ speeds = NoSpeeds
    /\ wrote = FALSE /\ cache = <<>>

InitCanon ==
    /\ Idle
    /\ pc = "call"
    /\ arg \in Concats(MaxPieces)
    /\ ret = <<>>

\* s -> _canon_title(s), then _canon_title of that result
CallCanonTitle ==
    /\ pc = "call"
    /\ ret' = IF ret = <<>> THEN <<_canon_title(arg)>>
              ELSE Append(ret, _canon_title(ret[Len(ret)]))
    /\ pc' = IF Len(ret') >= 2 THEN "returned" ELSE "call"
    /\ UNCHANGED <<cols, reads, loansFile, loans, df, res, speeds, arg, wrote, cache>>

NextCanon == CallCanonTitle

SpecCanon == InitCanon /\ [][NextCanon]_vars

InitPct ==
    /\ Idle
    /\ pc = "call"
    /\ arg \in ((0 - NegBooks)..MaxBooks) \X ((0 - NegBooks)..MaxBooks)
    /\ ret = <<>>

CallEstimatePercentile ==
    /\ pc = "call"
    /\ ret' = <<estimate_percentile(arg[1]), estimate_percentile(arg[2])>>
    /\ pc' = "returned"
    /\ UNCHANGED <<cols, reads, loansFile, loans, df, res, speeds, arg, wrote, cache>>

NextPct == CallEstimatePercentile

SpecPct == InitPct /\ [][NextPct]_vars

\* ====================================================================== claims

\* C1: compute_metrics never raises: whatever optional columns the export lacks,
\* the call returns a Metrics.
C1_NeverRaises == pc = "computed" => res.status = "ok"

\* C2: for a reads table with at least one row and a readable timeline, dnfs is
\* the number of canonical titles borrowed in the local-time target year that have
\* no completed record finished in the target year (a title whose only completed
\* record is finished the year after is counted), and appending a record completed
\* the year after does not lower dnfs.
C2_DnfYearAsymmetry ==
    pc = "computed" /\ loansFile = "present" /\ reads # <<>> =>
        LET borrowed == {_canon_title(loans[j].title) :
                            j \in {k \in DOMAIN loans :
                                      /\ IsBorrow(loans[k])
                                      /\ YearIs(ToLocal(loans[k].timestamp), TargetYear)}}
            finished == {_canon_title(reads[i].name) :
                            i \in {k \in DOMAIN reads :
                                      /\ NormStatus(reads[k].status) = Complete
                                      /\ YearIs(reads[k].finished, TargetYear)}}
            later == {r \in ReadMenu : /\ NormStatus(r.status) = Complete
                                       /\ YearIs(r.finished, TargetYear + 1)}
        IN  /\ res.status = "ok"
            /\ res.m.dnfs = Cardinality(borrowed \ finished)
            /\ \A r \in later :
                   compute_metrics(load_data(cols, Append(reads, r)), TargetYear,
                                   loansFile, loans).m.dnfs >= res.m.dnfs

\* Dune is checked out on 2025-12-31 local time and its only completed record is
\* finished in 2026
C2_Witness ==
    /\ pc = "computed"
    /\ reads = <<ReadRows.DuneReread>>
    /\ loans = <<LoanEvents.DuneLateCheckout>>
    /\ res.status = "ok"
    /\ res.m.books_checked_out = 1
    /\ res.m.dnfs = 1

\* C3: every row of compute_read_speeds pairs a (canonical title, finish) of the
\* frame with a borrow/checkout event of that title: borrowed <= created_time,
\* hours_to_finish = created_time - borrowed >= 0, no borrow of the title lies
\* after the chosen one and not after the finish, and no two rows share a
\* (canonical title, finish).
C3_LatestPriorCheckout ==
    pc = "speeds" =>
        LET rows == speeds.rows
            title(n) == _canon_title(rows[n].title)
            events(t) == {j \in DOMAIN loans :
                             /\ IsBorrow(loans[j])
                             /\ ~IsNull(loans[j].timestamp)
                             /\ _canon_title(loans[j].title) = t}
            at(j) == Val(ToLocal(loans[j].timestamp))
        IN  /\ \A n \in DOMAIN rows :
                   /\ rows[n].borrowed <= rows[n].created_time
                   /\ rows[n].hours_to_finish = rows[n].created_time - rows[n].borrowed
                   /\ rows[n].hours_to_finish >= 0
                   /\ \E j \in events(title(n)) : at(j) = rows[n].borrowed
                   /\ \A j \in events(title(n)) :
                          ~(rows[n].borrowed < at(j) /\ at(j) <= rows[n].created_time)
                   /\ \E i \in DOMAIN df.rows :
                          /\ _canon_title(df.rows[i].name) = title(n)
                          /\ df.rows[i].created_time = Some(rows[n].created_time)
            /\ \A n \in DOMAIN rows : \A k \in DOMAIN rows :
                   n # k => <<title(n), rows[n].created_time>> # <<title(k), rows[k].created_time>>

\* two checkouts of Mate precede its finish: the later one is paired with it
C3_Witness ==
    /\ pc = "speeds"
    /\ reads = <<ReadRows.MateLong>>
    /\ loans = <<LoanEvents.MateCheckout, LoanEvents.MateEarlierCheckout>>
    /\ Len(speeds.rows) = 1
    /\ speeds.rows[1].borrowed = DT(2025, 10, 1, 0, 0)
    /\ speeds.rows[1].created_time = DT(2025, 10, 7, 23, 27)
    /\ speeds.rows[1].hours_to_finish = 10047

\* C4: estimate_percentile(0) = 0, estimate_percentile(50) = 99,
\* estimate_percentile(4) < estimate_percentile(5) < estimate_percentile(6), and
\* for all counts a <= b, estimate_percentile(a) <= estimate_percentile(b).
C4_PercentileMonotone ==
    pc = "returned" =>
        /\ (arg[1] = 0 => ret[1] = 0)
        /\ (arg[1] = 50 => ret[1] = 99)
        /\ (arg = <<4, 5>> => ret[1] < ret[2])
        /\ (arg = <<5, 6>> => ret[1] < ret[2])
        /\ (arg[1] <= arg[2] => ret[1] <= ret[2])

\* an interpolated count below a tie that rounds to the even percentile (94.5 -> 94)
C4_Witness == pc = "returned" /\ arg = <<12, 41>> /\ ret = <<81, 94>>

\* C5: _canon_title(_canon_title(s)) = _canon_title(s) for all strings s, and
\* _canon_title("Mate (#2)") = _canon_title("mate").
C5_CanonIdempotent ==
    /\ (Len(ret) = 2 => ret[2] = ret[1])
    /\ (Len(ret) >= 1 /\ arg = <<"M", "a", "t", "e", " ", "(", "#", "2", ")">>
            => ret[1] = _canon_title(<<"m", "a", "t", "e">>))

\* C6: in every Metrics returned, savings_combined equals savings_finished +
\* savings_dnf exactly: the float savings_combined is the float sum of the two
\* floats, each the float nearest to its amount of two decimals.
C6_SavingsCombined ==
    pc = "computed" =>
        /\ res.status = "ok"
        /\ FromRatio(res.m.savings_combined, 100)
               = FAdd(FromRatio(res.m.savings_finished, 100), FromRatio(res.m.savings_dnf, 100))

\* C7: over the completed records of the year, a cost of "Free", blank or missing
\* is left out of the cost sum and of the mean's denominator, "$12.99" and
\* "12.99 USD" both count 12.99; savings_finished is the sum of the priced costs,
\* savings_dnf their mean times dnfs, and with no priced cost the three savings
\* are 0 whatever dnfs is.
C7_CostParsing ==
    pc = "computed" =>
        LET price(cell) == IF cell = <<"$", "1", "2", ".", "9", "9">> THEN <<1299>>
                           ELSE IF cell = <<"1", "2", ".", "9", "9", " ", "U", "S", "D">> THEN <<1299>>
                           ELSE IF cell = <<"$", "1", "5", ".", "9", "9">> THEN <<1599>>
                           ELSE IF cell = <<"$", "0", ".", "3", "0">> THEN <<30>>
                           ELSE <<>>
            priced == {i \in DOMAIN reads : price(reads[i].cost) # <<>>}
            total == Sum([i \in DOMAIN reads |->
                             IF i \in priced THEN price(reads[i].cost)[1] ELSE 0])
        IN  /\ res.status = "ok"
            /\ res.m.savings_finished = total
            /\ priced = {} =>
                   res.m.savings_dnf = 0 /\ res.m.savings_combined = 0
            /\ priced # {} =>
                   res.m.savings_dnf = RoundHalfEven(total * res.m.dnfs, Cardinality(priced))

\* a free book and a priced one, with one unfinished checkout: the mean is 12.99
C7_Witness ==
    /\ pc = "computed"
    /\ reads = <<CostRow(<<"F", "r", "e", "e">>), CostRow(<<"1", "2", ".", "9", "9", " ", "U", "S", "D">>)>>
    /\ res.status = "ok"
    /\ res.m.dnfs = 1
    /\ res.m.savings_finished = 1299
    /\ res.m.savings_dnf = 1299

\* C8 as stated: in scenario A, total_books = 1, novella_count = 0,
\* finished_audiobook_length_2025 = 10.5, fastest_title contains "Mate",
\* fastest_hours is 167.55 to the two decimals given, savings_finished = 15.99.
C8_ScenarioA_Stated ==
    /\ pc = "computed"
    /\ cols = ScenarioACols
    /\ reads = <<ReadRows.Mate>>
    /\ loans = <<LoanEvents.MateCheckout>>
    =>
        /\ res.status = "ok"
        /\ res.m.total_books = 1
        /\ res.m.novella_count = 0
        /\ res.m.finished_audiobook_length_2025 = 1050
        /\ Contains(res.m.fastest_title, <<"M", "a", "t", "e">>)
        /\ res.m.fastest_hours * 100 >= 16755 * 60 - 30
        /\ res.m.fastest_hours * 100 <= 16755 * 60 + 30
        /\ res.m.savings_finished = 1599

\* C8: in scenario A (an export with author and created_time columns and no page
\* count), total_books = 1, novella_count = 0, finished_audiobook_length_2025 = 10.5,
\* fastest_title contains "Mate", fastest_hours = 167.45 (2025-10-01 00:00 to the
\* corrected finish 2025-10-07 23:27), savings_finished = 15.99.
C8_ScenarioA ==
    /\ pc = "computed"
    /\ cols = ScenarioACols
    /\ reads = <<ReadRows.Mate>>
    /\ loans = <<LoanEvents.MateCheckout>>
    =>
        /\ res.status = "ok"
        /\ res.m.total_books = 1
        /\ res.m.novella_count = 0
        /\ res.m.finished_audiobook_length_2025 = 1050
        /\ Contains(res.m.fastest_title, <<"M", "a", "t", "e">>)
        /\ res.m.fastest_hours * 100 = 16745 * 60
        /\ res.m.savings_finished = 1599

\* scenario A has been computed
C8_Witness ==
    /\ pc = "computed"
    /\ cols = ScenarioACols
    /\ reads = <<ReadRows.Mate>>
    /\ loans = <<LoanEvents.MateCheckout>>
    /\ res.status = "ok"
    /\ res.m.fastest_title = <<"M", "a", "t", "e">>
    /\ res.m.fastest_hours = 10047

\* C9: with a readable timeline, books_checked_out is the number of canonical
\* titles borrowed in the target year; every such title without a completed record
\* in any year is one of the dnfs and has no entry among the fastest reads.
C9_UnfinishedCheckout ==
    pc = "computed" /\ loansFile = "present" =>
        LET borrowed == {_canon_title(loans[j].title) :
                            j \in {k \in DOMAIN loans :
                                      /\ IsBorrow(loans[k])
                                      /\ YearIs(ToLocal(loans[k].timestamp), TargetYear)}}
            completed == {_canon_title(reads[i].name) :
                             i \in {k \in DOMAIN reads : NormStatus(reads[k].status) = Complete}}
            top3 == IF res.m.fastest_top3 = <<>> THEN <<>> ELSE res.m.fastest_top3[1]
        IN  /\ res.status = "ok"
            /\ res.m.books_checked_out = Cardinality(borrowed)
            /\ res.m.dnfs >= Cardinality(borrowed \ completed)
            /\ \A n \in DOMAIN top3 : _canon_title(top3[n].title) \notin (borrowed \ completed)

\* C10: genres_count is the number of distinct title-cased fragments of the genre
\* cells of the completed records and top_genre a fragment no other fragment
\* outnumbers; "Fantasy; Adventure" on two records and "fantasy" on a third give
\* genres_count = 2 and top_genre = "Fantasy".
C10_Genres ==
    pc = "computed" /\ reads # <<>> =>
        LET Fantasy == <<"F", "a", "n", "t", "a", "s", "y">>
            Adventure == <<"A", "d", "v", "e", "n", "t", "u", "r", "e">>
            SciFi == <<"S", "c", "i", "-", "F", "i">>
            Cafe == <<"C", "a", "f", "U+00E9">>
            Ssa == <<"S", "s", "a">>
            frags(row) == IF row = ReadRows.GenreA THEN <<Fantasy, Adventure>>
                          ELSE IF row = ReadRows.GenreB THEN <<Fantasy>>
                          ELSE IF row = ReadRows.GenreC THEN <<SciFi, Fantasy>>
                          ELSE <<Cafe, Ssa>>
            count(g) == Sum([i \in DOMAIN reads |->
                                Cardinality({k \in DOMAIN frags(reads[i]) : frags(reads[i])[k] = g})])
            all == {g \in {Fantasy, Adventure, SciFi, Cafe, Ssa} : count(g) > 0}
            scenario == {i \in DOMAIN reads : reads[i] = ReadRows.GenreA}
        IN  /\ res.status = "ok"
            /\ res.m.genres_count = Cardinality(all)
            /\ res.m.top_genre \in all
            /\ \A g \in all : count(g) <= count(res.m.top_genre)
            /\ (Len(reads) = 3 /\ Cardinality(scenario) = 2 /\ ReadRows.GenreB \in Range(reads)
                    => res.m.genres_count = 2 /\ res.m.top_genre = Fantasy)

\* scenario C has been computed
C10_Witness ==
    /\ pc = "computed"
    /\ reads = <<ReadRows.GenreA, ReadRows.GenreB, ReadRows.GenreA>>
    /\ res.status = "ok"
    /\ res.m.genres_count = 2
    /\ res.m.top_genre = <<"F", "a", "n", "t", "a", "s", "y">>

\* ============================================================ novella counts

MaxNovellaReads == 2

\* exports with and without a genre column
NextNovella ==
    \/ ExportRow(Menus.Novella, MaxNovellaReads)
    \/ LoadData
    \/ ComputeMetrics

SpecNovella ==
    /\ InitTables({c \in ColMenu : ExportCols \ {"genre"} \subseteq c /\ c \subseteq ExportCols},
                  {"missing"})
    /\ [][NextNovella]_vars

\* C11: total_finished = novella_count + total_books; total_finished counts the
\* records with normalized status "complete" finished in the target year,
\* novella_count those of them whose genre cell names a novella, and without a
\* genre column novella_count is 0.
C11_CountsAddUp ==
    pc = "computed" =>
        LET done == {i \in DOMAIN reads :
                        /\ reads[i] \in {ReadRows.BintiDone, ReadRows.Dune}}
            novellas == {i \in done : reads[i] = ReadRows.BintiDone}
        IN  /\ res.status = "ok"
            /\ res.m.total_finished = res.m.novella_count + res.m.total_books
            /\ res.m.total_finished = Cardinality(done)
            /\ res.m.novella_count = (IF "genre" \in cols THEN Cardinality(novellas) ELSE 0)

\* a completed novella and a completed book have been counted
C11_Witness ==
    /\ pc = "computed"
    /\ "genre" \in cols
    /\ reads = <<ReadRows.BintiDone, ReadRows.Dune>>
    /\ res.status = "ok"
    /\ res.m.total_finished = 2
    /\ res.m.novella_count = 1
    /\ res.m.total_books = 1

\* C12: with the timeline missing or unreadable books_checked_out is the number of
\* rows of the year-filtered reads table and dnfs the number of them with
\* normalized status "dnf", every other field being what a readable timeline
\* without events gives; with a readable timeline the fallback is not taken:
\* books_checked_out is the number of canonical titles borrowed in the year.
C12_FallbackOnlyWhenMissing ==
    pc = "computed" /\ res.status = "ok" /\ reads # <<>> /\ {"status", "finished"} \subseteq cols =>
        LET inYear == {i \in DOMAIN reads : YearIs(reads[i].finished, TargetYear)}
            dnf == {i \in inYear : Strip(Lower(reads[i].status)) = <<"d", "n", "f">>}
            borrowed == {_canon_title(loans[j].title) :
                            j \in {k \in DOMAIN loans :
                                      /\ IsBorrow(loans[k])
                                      /\ YearIs(ToLocal(loans[k].timestamp), TargetYear)}}
            bare == compute_metrics(df, TargetYear, "present", <<>>)
            same == DOMAIN DefaultMetrics
                        \ {"books_checked_out", "dnfs", "savings_dnf", "savings_combined"}
        IN  IF loansFile # "present"
            THEN /\ res.m.books_checked_out = Cardinality(inYear)
                 /\ res.m.dnfs = Cardinality(dnf)
                 /\ \A f \in same : res.m[f] = bare.m[f]
            ELSE res.m.books_checked_out = Cardinality(borrowed)

\* ================================================== corrections and write-back

MaxFixReads == 2

\* exports with and without the columns fix_finished_times reads
NextFixes ==
    \/ ExportRow(Menus.Fixes, MaxFixReads)
    \/ LoadData

SpecFixes ==
    /\ InitTables({c \in ColMenu : \/ c = ExportCols
                                   \/ c = ExportCols \ {"created_time"}
                                   \/ c = ExportCols \ {"name"}},
                  {"missing"})
    /\ [][NextFixes]_vars

\* the corrected time of a record of the menu by its title as written, <<>> when
\* the correction table has no entry for it
CorrectionOf(row) ==
    IF row.name \in {ReadRows.Mate.name, ReadRows.Undated.name}
    THEN Some(DT(2025, 10, 7, 23, 27))
    ELSE IF row.name = ReadRows.Onyx.name THEN Some(DT(2025, 1, 23, 10, 30))
    ELSE <<>>

\* whether row i is logged in the year of its correction
LoggedInFixYear(rows, i) ==
    /\ rows[i].created_time # <<>>
    /\ rows[i].created_time[1] >= DT(2025, 1, 1, 0, 0)
    /\ rows[i].created_time[1] < DT(2026, 1, 1, 0, 0)

\* the created_time the corrected table holds for row i
CorrectedTime(rows, i) ==
    LET ts == CorrectionOf(rows[i])
        sameYear == {j \in DOMAIN rows : CorrectionOf(rows[j]) = ts /\ LoggedInFixYear(rows, j)}
    IN  IF ts = <<>> THEN rows[i].created_time
        ELSE IF sameYear # {} /\ i \notin sameYear THEN rows[i].created_time
        ELSE ts

\* C13: a failure of the write-back never aborts the load (load_data fails only
\* where fix_finished_times raises); the frame returned is the corrected table
\* whether the file was rewritten or not; the file is rewritten only when a
\* correction was applied, and then holds the corrected table.
C13_PersistBestEffort ==
    [][pc = "edit" /\ pc' # "edit" =>
        LET fixable == {i \in DOMAIN reads : CorrectionOf(reads[i]) # <<>>}
        IN  /\ pc' = "failed" <=> ("created_time" \in cols /\ "name" \notin cols)
            /\ pc' = "loaded" /\ "created_time" \in cols =>
                   \A i \in DOMAIN reads :
                       df'.rows[i] = [reads[i] EXCEPT !.created_time = CorrectedTime(reads, i)]
            /\ wrote' => fixable # {} /\ {"created_time", "name"} \subseteq cols
            /\ wrote' => reads' = df'.rows
            /\ ~wrote' => reads' = reads]_vars

\* a load that corrected a record and could not write the file
C13_Witness ==
    /\ pc = "loaded"
    /\ ~wrote
    /\ reads = <<ReadRows.Mate>>
    /\ df.rows[1].created_time = Some(DT(2025, 10, 7, 23, 27))

\* C15: for each title of the correction table, when some record of the title is
\* logged in the correction's year exactly those records get the corrected time
\* and the title's records of other years keep theirs; when none is, every record
\* of the title gets it; records of other titles and all other columns are
\* unchanged.
C15_FixFinishedTimes ==
    [][pc = "edit" /\ pc' = "loaded" /\ "created_time" \in cols =>
        \A i \in DOMAIN reads :
            LET ts == CorrectionOf(reads[i])
                title == {j \in DOMAIN reads : CorrectionOf(reads[j]) = ts}
                before == reads[i].created_time
                after == df'.rows[i].created_time
            IN  /\ Len(df'.rows) = Len(reads)
                /\ \A f \in DOMAIN reads[i] \ {"created_time"} : df'.rows[i][f] = reads[i][f]
                /\ ts = <<>> => after = before
                /\ ts # <<>> /\ (\E j \in title : LoggedInFixYear(reads, j)) =>
                       after = (IF LoggedInFixYear(reads, i) THEN ts ELSE before)
                /\ ts # <<>> /\ (\A j \in title : ~LoggedInFixYear(reads, j)) => after = ts]_vars

\* of two records of a corrected title the one logged in the correction's year
\* has been corrected, the other has not
C15_Witness ==
    /\ pc = "loaded"
    /\ Len(df.rows) = 2
    /\ df.rows[1].name = ReadRows.Mate.name
    /\ df.rows[2].name = ReadRows.Mate.name
    /\ df.rows[1].created_time = Some(DT(2025, 10, 7, 23, 27))
    /\ df.rows[2].created_time = Some(DT(2024, 10, 8, 9, 15))

\* ======================================================= the page (app.py 46-52)

MaxAppReads == 2
MaxAppLoans == 1

\* metrics, fastest_top3_str = load_metrics(CSV_PATH) under @st.cache_data: the
\* cache is keyed by the argument, the path string, which is the same at every
\* run; a hit returns the stored value without running the body, a miss runs
\* load_data and compute_metrics and stores the value unless the body raised
LoadMetrics ==
    /\ pc = "edit"
    /\ pc' = "served"
    /\ IF cache # <<>>
       THEN /\ res' = cache[1]
            /\ UNCHANGED <<reads, df, wrote, cache>>
       ELSE /\ df' = load_data(cols, reads)
            /\ \E io \in PersistOutcomes :
                   /\ wrote' = Rewrites(cols, reads, df', io)
                   /\ reads' = IF wrote' THEN Written(reads, df') ELSE reads
            /\ res' = IF df'.loaded THEN compute_metrics(df', TargetYear, loansFile, loans)
                      ELSE [status |-> "raised"]
            /\ cache' = IF res'.status = "ok" THEN <<res'>> ELSE <<>>
    /\ UNCHANGED <<cols, loansFile, loans, speeds, arg, ret>>

\* the script has run to its end; the next request runs it again
ScriptEnds ==
    /\ pc = "served"
    /\ pc' = "edit"
    /\ UNCHANGED <<cols, reads, loansFile, loans, df, res, speeds, arg, ret, wrote, cache>>

NextApp ==
    \/ ExportRow(Menus.App, MaxAppReads)
    \/ TimelineRow(CostLoanMenu, MaxAppLoans)
    \/ LoadMetrics
    \/ ScriptEnds

SpecApp == InitTables({ExportCols}, {"present"}) /\ [][NextApp]_vars

\* C14: the Report a load returns is the Report of the input files as they are at
\* that load: a load after the reads export or the timeline export has changed
\* returns a Report recomputed from the new contents, never a stale one.
C14_NeverStale ==
    pc = "served" /\ res.status = "ok" =>
        res = compute_metrics(load_data(cols, reads), TargetYear, loansFile, loans)

\* ==================================================== checkouts by local year

\* C16: a checkout counts for the year of its local time: the events of
\* 2025-01-01 03:00 UTC (2024-12-31 local) do not count toward books_checked_out
\* and dnfs of 2025, those of 2026-01-01 03:00 UTC (2025-12-31 local) count for
\* 2025 and not for 2026; books_checked_out is the number of distinct canonical
\* titles among the events of the year.
C16_LocalYear ==
    pc = "computed" /\ loansFile = "present" =>
        LET local == [e \in LoanMenu |-> IF e = LoanEvents.DuneCheckout THEN 2024 ELSE 2025]
            titles == {loans[j].title : j \in {k \in DOMAIN loans : local[loans[k]] = TargetYear}}
            done == {reads[i].name : i \in {k \in DOMAIN reads : reads[k] # ReadRows.DuneReread}}
            unfinished == {t \in titles :
                              /\ t = LoanEvents.MateCheckout.title => ReadRows.MateLong.name \notin done
                              /\ t = LoanEvents.DuneCheckout.title => ReadRows.Dune.name \notin done}
            after == compute_metrics(df, TargetYear + 1, loansFile, loans)
        IN  /\ res.status = "ok"
            /\ res.m.books_checked_out = Cardinality(titles)
            /\ res.m.dnfs = Cardinality(unfinished)
            /\ after.status = "ok"
            /\ after.m.books_checked_out = 0
            /\ after.m.dnfs = 0

\* ================================================================ audiobooks

MaxAudioReads == 3

NextAudio ==
    \/ ExportRow(Menus.Audio, MaxAudioReads)
    \/ LoadData
    \/ ComputeMetrics

\* exports with and without an explicit audiobook length
SpecAudio ==
    /\ InitTables({c \in ColMenu : ExportCols \subseteq c}, {"missing"})
    /\ [][NextAudio]_vars

\* the duration of a record of the menu in minutes: the explicit length when the
\* export has the column and the cell is not zero, else hours x 60 + minutes
DurationOf(row) ==
    IF "audiobook_length_minutes" \in cols /\ row.audiobook_length_minutes \notin {<<>>, <<0>>}
    THEN row.audiobook_length_minutes[1]
    ELSE (IF row.ab_hours = <<>> THEN 0 ELSE row.ab_hours[1] * 60)
         + (IF row.ab_minutes = <<>> THEN 0 ELSE row.ab_minutes[1])

\* the records of the menu that are audiobooks: all but the e-book
Audiobooks == {i \in DOMAIN reads : reads[i].name # ReadRows.Dune.name}

\* the title of a record of the menu as the page shows it
ShownTitle(row) ==
    IF row.name = ReadRows.Mate.name THEN <<"M", "a", "t", "e">>
    ELSE IF row.name = ReadRows.Onyx.name THEN <<"O", "n", "y", "x", " ", "S", "t", "o", "r", "m">>
    ELSE IF row.name = ReadRows.FourthWing.name
         THEN <<"F", "o", "u", "r", "t", "h", " ", "W", "i", "n", "g">>
    ELSE row.name

\* C17: no author of the completed audiobooks of the year has more books than
\* top_author, and none with as many books has more minutes; top_author_books and
\* top_author_minutes are the count and the minute sum of that author's records,
\* and the two titles reported are those of that author's two longest records.
C17_TopAuthor ==
    pc = "computed" /\ Audiobooks # {} =>
        LET of(a) == {i \in Audiobooks : reads[i].author = a}
            minutes(a) == Sum([i \in DOMAIN reads |->
                                  IF i \in of(a) THEN DurationOf(reads[i]) ELSE 0])
            authors == {reads[i].author : i \in Audiobooks}
            top == res.m.top_author
        IN  /\ res.status = "ok"
            /\ top \in authors
            /\ res.m.authors_count = Cardinality(authors)
            /\ res.m.top_author_books = Cardinality(of(top))
            /\ res.m.top_author_minutes = minutes(top)
            /\ \A a \in authors :
                   /\ Cardinality(of(a)) <= Cardinality(of(top))
                   /\ Cardinality(of(a)) = Cardinality(of(top)) => minutes(a) <= minutes(top)
            /\ \E first \in of(top) :
                   /\ \A i \in of(top) : DurationOf(reads[i]) <= DurationOf(reads[first])
                   /\ res.m.top_author_book_title_1 = ShownTitle(reads[first])
                   /\ IF of(top) = {first} THEN res.m.top_author_book_title_2 = <<>>
                      ELSE \E second \in of(top) \ {first} :
                               /\ \A i \in of(top) \ {first} :
                                      DurationOf(reads[i]) <= DurationOf(reads[second])
                               /\ res.m.top_author_book_title_2 = ShownTitle(reads[second])

\* an author with two shorter books has been ranked above an author with one
\* longer book
C17_Witness ==
    /\ pc = "computed"
    /\ Len(reads) = 3
    /\ {reads[i].name : i \in DOMAIN reads}
           = {ReadRows.Mate.name, ReadRows.Bride.name, ReadRows.Onyx.name}
    /\ res.status = "ok"
    /\ res.m.top_author = ReadRows.Mate.author
    /\ res.m.top_author_books = 2
    /\ res.m.top_author_minutes = 1110
    /\ res.m.top_author_book_title_1 = <<"M", "a", "t", "e">>
    /\ res.m.top_author_book_title_2 = <<"B", "r", "i", "d", "e">>

\* C19: biggest_month_hours never exceeds finished_audiobook_length_2025 (up to
\* the rounding of each), both being sums of the same duration of a record, and
\* the two agree when every audiobook finished in one calendar month.
C19_MonthWithinTotal ==
    pc = "computed" /\ res.status = "ok" /\ Audiobooks # {} =>
        LET total == res.m.finished_audiobook_length_2025
            month == res.m.biggest_month_hours * 10
            oneMonth == \A i, j \in Audiobooks :
                            reads[i].finished[1] - reads[j].finished[1] < 28 * 1440
        IN  /\ month <= total + 5
            /\ oneMonth => total <= month + 5

\* C18: in every Metrics returned, 0 <= dnfs <= books_checked_out on both paths,
\* and when the counts come from the loan events, books_checked_out - dnfs does
\* not exceed total_finished.
C18_DnfBounds ==
    pc = "computed" /\ res.status = "ok" =>
        LET primary == loansFile = "present" /\ "name" \in cols
        IN  /\ 0 <= res.m.dnfs
            /\ res.m.dnfs <= res.m.books_checked_out
            /\ primary => res.m.books_checked_out - res.m.dnfs <= res.m.total_finished

\* the loan events name a title the export has not completed, next to a
\* completed one
C18_Witness ==
    /\ pc = "computed"
    /\ res.status = "ok"
    /\ loansFile = "present"
    /\ cols = ExportCols
    /\ loans = <<LoanEvents.MateCheckout>>
    /\ reads # <<>>
    /\ res.m.total_finished = 1
    /\ res.m.books_checked_out = 1
    /\ res.m.dnfs = 1

\* C20: every entry of fastest_top3, and fastest_title, is the title of a record
\* counted in total_finished, a complete record whose finished date is in the
\* target year; fastest_top3 has at most 3 entries in ascending hours_to_finish
\* and fastest_hours is the hours of its first entry.
C20_FastestAreCounted ==
    pc = "computed" /\ res.status = "ok" =>
        LET top3 == IF res.m.fastest_top3 = <<>> THEN <<>> ELSE res.m.fastest_top3[1]
            counted == {i \in DOMAIN reads :
                           /\ NormStatus(reads[i].status) = Complete
                           /\ YearIs(reads[i].finished, TargetYear)}
            titles == {_display_title(AsStr(reads[i].name)) : i \in counted}
        IN  /\ Len(top3) <= 3
            /\ \A n \in DOMAIN top3 : top3[n].title \in titles
            /\ res.m.fastest_title # <<>> => res.m.fastest_title \in titles
            /\ \A n \in DOMAIN top3 :
                   n > 1 => top3[n - 1].hours_to_finish <= top3[n].hours_to_finish
            /\ top3 # <<>> =>
                   top3[1].hours_to_finish = RoundHalfEven(res.m.fastest_hours * 100, 60)

====
